---- MODULE Spec2Model ----
(***************************************************************************)
(* Model of the text core of the dictionary export scripts:                *)
(*   scripts/utils/text_processing.py  mark_stress                         *)
(*   scripts/utils/sorting.py          create_tokenizer / tokenize /       *)
(*                                     sorting_key                         *)
(*   scripts/utils/alphabet.py         load_alphabet                       *)
(*                                                                         *)
(* Python strings are sequences of one-character strings.  Index variables *)
(* keep Python's 0-based values; At, Slice and Find convert.               *)
(*                                                                         *)
(* Characters (ASCII stand-ins for the lexicon's characters):              *)
(*   IPA side       "a" "u" "e"  vowel symbols of the alphabet table       *)
(*                  "x"          any other IPA symbol                      *)
(*                  "P"          U+02C8 primary stress                     *)
(*                  "S"          U+02CC secondary stress                   *)
(*                  "'"          apostrophe, the uniform marker            *)
(*                  " " "-"      segment separators                        *)
(*   headword side  "a" "u"      single-character vowel graphemes          *)
(*                  "k" "h" "w"  consonant characters; "kh" is a digraph,  *)
(*                               "khw" a trigraph, "he" a vowel digraph    *)
(*                  "A" "K"      upper-case forms of "a" and "k"           *)
(*                  "z"          a character outside the alphabet          *)
(*                  "^"          U+0301 combining acute accent             *)
(***************************************************************************)
EXTENDS Integers, Sequences, FiniteSets, TLC

\* load_alphabet: the table read from data/alphabet.yaml and what is derived
\* from it
VARIABLES table, alphabet, alphabet_tokens, vowels

\* mark_stress: its argument, its position, its locals and its return value
VARIABLES entry, pc, headword, ipa, i_stress, i_word, v_count, i_char,
          i_vowel, needs_stress, i_for, result

\* sorting_key / tokenize: the two entries being compared, the number of
\* keys computed so far, the position, the locals of tokenize, and the
\* token lists and keys returned so far
VARIABLES pair, n_keyed, spc, word, i, tokens, token_lists, keys

\* validate.py / validate_id_collisions: the YAML files found by rglob (in
\* the order rglob yields them), the position, the dict id_to_files in
\* insertion order, the loop positions, the flag, the collisions printed,
\* the return value and the exit status of validate.py
VARIABLES lexicon_files, vpc, i_file, id_to_files, i_id, has_errors, reported,
          id_result, exit_status

\* export.py: the lexicon directory on disk, which export scripts exist, the
\* position of main, the loop index, the counter and the exit status; the
\* scripts announced by run_script ("Running ..."), in order, and the output
\* files written so far, each with the script that wrote it
VARIABLES lexicon, script_exists, epc, i_script, success_count, export_status,
          started, written

\* one export script (to_json_web.py, to_json_archive.py, to_csv.py): which
\* one, its position, the loop indices and results of load_lexicon_entries,
\* the rows or groups built so far, the file written, the exit status
VARIABLES script, xpc, i_letter, i_yaml, entries_by_letter, total_entries,
          skipped_entries, all_entries, converted_entries, output, script_status

\* rename-ejectives.py / rename_tree: the directories and the files below
\* the lexicon directory (paths relative to it), the position, the stack of
\* os.walk (one frame per directory entered and not yet yielded), the list
\* renames, the index of the second loop and the return value
VARIABLES disk_dirs, disk_files, rpc, walk_stack, renames, i_rename, rename_count

\* simplify_forms: its three arguments, its position and its return value
VARIABLES sf_forms, sf_headword, sf_tags, sf_pc, sf_result

\* fix-ipa.py: the lines of a lexeme file on disk, the value of its ipa line
\* before the first run, the number of runs of the script so far and what
\* process_file returned in each
VARIABLES fx_file, fx_original, fx_runs, fx_changed

loaded == <<table, alphabet, alphabet_tokens, vowels>>

rn_vars == <<disk_dirs, disk_files, rpc, walk_stack, renames, i_rename, rename_count>>

sf_vars == <<sf_forms, sf_headword, sf_tags, sf_pc, sf_result>>

fx_vars == <<fx_file, fx_original, fx_runs, fx_changed>>

tool_vars == <<rn_vars, sf_vars, fx_vars>>

main_vars == <<lexicon, script_exists, epc, i_script, success_count, export_status,
               started, written>>

script_vars == <<script, xpc, i_letter, i_yaml, entries_by_letter, total_entries,
                 skipped_entries, all_entries, converted_entries, output, script_status>>

exp_vars == <<main_vars, script_vars>>

val_vars == <<lexicon_files, vpc, i_file, id_to_files, i_id, has_errors, reported,
              id_result, exit_status>>

ms_vars == <<entry, pc, headword, ipa, i_stress, i_word, v_count, i_char,
             i_vowel, needs_stress, i_for, result>>

sk_vars == <<pair, n_keyed, spc, word, i, tokens, token_lists, keys>>

vars == <<loaded, ms_vars, sk_vars, val_vars, exp_vars, tool_vars>>

(* ------------------------------ bounds -------------------------------- *)

MaxIpaLen == 4

MaxHwLen == 3

(* ------------------------- Python string helpers ----------------------- *)

ACUTE == "^"

MARKER == "'"

\* s[ix] for a 0-based index ix with 0 <= ix < len(s)
At(s, ix) == s[ix + 1]

\* s[:ix] for 0 <= ix
Prefix(s, ix) == SubSeq(s, 1, IF ix < Len(s) THEN ix ELSE Len(s))

\* s[ix:] for 0 <= ix
Suffix(s, ix) == SubSeq(s, ix + 1, Len(s))

\* s.startswith(t)
StartsWith(s, t) == Len(t) <= Len(s) /\ SubSeq(s, 1, Len(t)) = t

\* c in s, for a character c
Contains(s, c) == \E k \in 1..Len(s) : s[k] = c

\* s.find(sub, start): lowest 0-based index >= start where sub occurs, or -1
Find(s, sub, start) ==
    LET hits == {k \in start..(Len(s) - Len(sub)) : StartsWith(Suffix(s, k), sub)}
    IN IF hits = {} THEN -1 ELSE CHOOSE k \in hits : \A m \in hits : k <= m

\* s.replace(c, d) for single characters c, d
ReplaceChar(s, c, d) == [k \in 1..Len(s) |-> IF s[k] = c THEN d ELSE s[k]]

RECURSIVE RemoveChar(_, _)
\* s.replace(c, '')
RemoveChar(s, c) ==
    IF s = <<>> THEN <<>>
    ELSE IF Head(s) = c THEN RemoveChar(Tail(s), c)
    ELSE <<Head(s)>> \o RemoveChar(Tail(s), c)

\* all sequences over S of length at most nn
SeqsUpTo(S, nn) == UNION {[1..k -> S] : k \in 0..nn}

(* ----------------------------- alphabet -------------------------------- *)

\* data/alphabet.yaml as load_alphabet reads it: the graphemes in definition
\* order, each with its type and its IPA symbol
DefaultTable ==
    << [grapheme |-> <<"a">>,           type |-> "vowel",     ipa |-> <<"a">>],
       [grapheme |-> <<"e", "h">>,      type |-> "vowel",     ipa |-> <<"e">>],
       [grapheme |-> <<"h">>,           type |-> "consonant", ipa |-> <<"h">>],
       [grapheme |-> <<"k">>,           type |-> "consonant", ipa |-> <<"k">>],
       [grapheme |-> <<"k", "h">>,      type |-> "consonant", ipa |-> <<"q">>],
       [grapheme |-> <<"k", "h", "w">>, type |-> "consonant", ipa |-> <<"q", "w">>],
       [grapheme |-> <<"u">>,           type |-> "vowel",     ipa |-> <<"u">>],
       [grapheme |-> <<"w">>,           type |-> "consonant", ipa |-> <<"w">>] >>

\* alphabet = list(data['alphabet'].keys())
Alphabet(t) == [k \in 1..Len(t) |-> t[k].grapheme]

\* ['-', ' '] + alphabet
AlphabetFull(t) == << <<"-">>, <<" ">> >> \o Alphabet(t)

\* the elements of s of length nn, in their order in s
OfLen(s, nn) == SelectSeq(s, LAMBDA g : Len(g) = nn)

\* longest grapheme of the table
MaxGraphemeLen(t) ==
    LET lens == {Len(AlphabetFull(t)[k]) : k \in 1..Len(AlphabetFull(t))}
    IN CHOOSE nn \in lens : \A m \in lens : m <= nn

RECURSIVE ByLenDesc(_, _)
\* sorted(s, key=len, reverse=True), a stable sort: longest first, elements
\* of equal length in their original order
ByLenDesc(s, nn) == IF nn < 0 THEN <<>> ELSE OfLen(s, nn) \o ByLenDesc(s, nn - 1)

\* bug: the inventory is left in alphabet order, not sorted by length
AlphabetTokens_Unsorted(t) == AlphabetFull(t)

\* alphabet_tokens = sorted(['-', ' '] + alphabet, key=len, reverse=True)
AlphabetTokens(t) == ByLenDesc(AlphabetFull(t), MaxGraphemeLen(t))

\* bug: the first grapheme defined for an IPA symbol is kept
LoadVowels_FirstWins(t) ==
    LET vs == {k \in 1..Len(t) : t[k].type = "vowel"}
        first(sym) == CHOOSE k \in vs : t[k].ipa = sym /\ \A m \in vs : t[m].ipa = sym => k <= m
    IN [sym \in {t[k].ipa : k \in vs} |-> t[first(sym)].grapheme]

\* vowels = {}; for grapheme, info in items: if vowel: vowels[info['ipa']] = grapheme
LoadVowels(t) ==
    LET vs == {k \in 1..Len(t) : t[k].type = "vowel"}
        last(sym) == CHOOSE k \in vs : t[k].ipa = sym /\ \A m \in vs : t[m].ipa = sym => m <= k
    IN [sym \in {t[k].ipa : k \in vs} |-> t[last(sym)].grapheme]

(* ------------------------------ sorting -------------------------------- *)

\* bug: an unknown token gets the rank of the first entry of the inventory
UnknownRank_First == Len(<<"-">>) - 1

\* rank given to a token that is not in letter_order
UnknownRank == 999

\* str.lower() on the characters of the model
LowerChar(c) == IF c = "A" THEN "a" ELSE IF c = "K" THEN "k" ELSE c

Lower(s) == [k \in 1..Len(s) |-> LowerChar(s[k])]

\* bug: the accents are not removed
StripAccents_Keep(h) == h

\* headword.replace(U+0301, '')
StripAccents(h) == RemoveChar(h, ACUTE)

\* bug: the ranks are taken from the alphabet without '-' and ' ' in front
LetterOrder_NoPrefix(alpha) ==
    [g \in {alpha[k] : k \in 1..Len(alpha)} |-> (CHOOSE k \in 1..Len(alpha) : alpha[k] = g) - 1]

\* letter_order = {letter: i for i, letter in enumerate(['-', ' '] + alphabet)}
\* (a letter listed twice keeps its last index)
LetterOrder(alpha) ==
    LET full == << <<"-">>, <<" ">> >> \o alpha
        last(g) == CHOOSE k \in 1..Len(full) :
                       full[k] = g /\ \A m \in 1..Len(full) : full[m] = g => m <= k
    IN [g \in {full[k] : k \in 1..Len(full)} |-> last(g) - 1]

\* letter_order.get(token, 999)
RankOf(token, alpha) ==
    IF token \in DOMAIN LetterOrder(alpha) THEN LetterOrder(alpha)[token] ELSE UnknownRank

\* bug: a placeholder stands for a character outside the inventory
UnknownToken_Placeholder(w, i0) == <<"?">>

\* lines 23-25: tokens.append(word[i])
UnknownToken(w, i0) == <<At(w, i0)>>

\* bug: the last letter of alphabet_tokens that matches is taken
TokenAt_LastMatch(w, i0, toks) ==
    LET hits == {k \in 1..Len(toks) : StartsWith(Suffix(w, i0), toks[k])}
    IN IF hits = {} THEN UnknownToken(w, i0)
       ELSE toks[CHOOSE k \in hits : \A m \in hits : k >= m]

\* the token tokenize emits at 0-based position i0 of w: the first letter of
\* alphabet_tokens that w[i0:] starts with, else the character w[i0]
TokenAt(w, i0, toks) ==
    LET hits == {k \in 1..Len(toks) : StartsWith(Suffix(w, i0), toks[k])}
    IN IF hits = {} THEN UnknownToken(w, i0)
       ELSE toks[CHOOSE k \in hits : \A m \in hits : k <= m]

RECURSIVE TokenizeFrom(_, _, _)
\* the while loop of tokenize from position i0 on
TokenizeFrom(w, i0, toks) ==
    IF ~(i0 < Len(w)) THEN <<>>
    ELSE LET t == TokenAt(w, i0, toks)
         IN <<t>> \o TokenizeFrom(w, i0 + Len(t), toks)

\* tokenize(word)
Tokenize(w, toks) == TokenizeFrom(Lower(w), 0, toks)

\* [letter_order.get(token, 999) for token in ts]
RanksOf(ts, alpha) == [k \in 1..Len(ts) |-> RankOf(ts[k], alpha)]

\* sorting_key(entry) for an entry whose headword is a string
SortingKey(e, alpha, toks) ==
    RanksOf(Tokenize(StripAccents(Lower(e.headword)), toks), alpha)

(* ----------------------------- mark_stress ----------------------------- *)

\* bug: the test 'ipa' not in entry is missing
NoIpa_NoMembershipTest(e) == e.ipa_kind = "null" \/ (e.ipa_kind = "str" /\ e.ipa = <<>>)

\* 'ipa' not in entry or not entry['ipa']
NoIpa(e) == e.ipa_kind = "absent" \/ e.ipa_kind = "null" \/ e.ipa = <<>>

\* entry['ipa'].replace(U+02C8, "'").replace(U+02CC, "'")
NormalizeIpa(s) == ReplaceChar(ReplaceChar(s, "P", MARKER), "S", MARKER)

\* char in vowels (membership in the keys of the dict)
IsVowel(char, vmap) == <<char>> \in DOMAIN vmap

\* char in ' -' or i_char == len(ipa) - 1
AtBoundary(char, ic, s) == char \in {" ", "-"} \/ ic = Len(s) - 1

\* bug: v_count < 1 in place of v_count <= 1
Predictable_NoVowelOnly(vc, is, iw) == vc < 1 /\ is >= iw

\* v_count <= 1 and i_stress >= i_word
Predictable(vc, is, iw) == vc <= 1 /\ is >= iw

\* bug: the mark is inserted before the matched character
InsertMark_Before(h, iv) == Prefix(h, iv) \o <<ACUTE>> \o Suffix(h, iv)

\* headword[:i_vowel + 1] + U+0301 + headword[i_vowel + 1:]
InsertMark(h, iv) == Prefix(h, iv + 1) \o <<ACUTE>> \o Suffix(h, iv + 1)

\* bug: every search starts at the beginning of the headword
FindVowel_FromStart(h, char, vmap, iv) == Find(h, vmap[<<char>>], 0)

\* headword.find(vowels[char], i_vowel + 1)
FindVowel(h, char, vmap, iv) == Find(h, vmap[<<char>>], iv + 1)

\* bug: the working copy is returned, with the marks inserted so far
NotFoundResult_Working(e, h) == h

\* what line 64 returns when a vowel is not found
NotFoundResult(e, h) == e.headword

\* bug: the character after the marker is deleted
DeleteAt_Next(s, ix) == Prefix(s, ix + 1) \o Suffix(s, ix + 2)

\* ipa[:i_stress] + ipa[i_stress + 1:]
DeleteAt(s, ix) == Prefix(s, ix) \o Suffix(s, ix + 1)

\* bug: the flag stays set after a mark is inserted
ConsumedFlag_Kept(ns) == ns

\* line 69: needs_stress = False
ConsumedFlag(ns) == FALSE

\* bug: the index is moved back by two
IndexAfterDelete_Two(ic) == ic - 2

\* line 45: i_char -= 1
IndexAfterDelete(ic) == ic - 1

\* lines 20-34: the early return, the normalisation and the loop variables
MsEnter ==
    /\ pc = "call"
    /\ IF NoIpa(entry)
       THEN /\ pc' = "done"
            /\ result' = entry.headword
            /\ UNCHANGED <<headword, ipa, i_stress, i_word, v_count, i_char>>
       ELSE IF entry.ipa_kind # "str"
       THEN \* entry['ipa'] raises KeyError, None.replace raises AttributeError
            /\ pc' = "raised"
            /\ UNCHANGED <<result, headword, ipa, i_stress, i_word, v_count, i_char>>
       ELSE /\ pc' = "predict"
            /\ headword' = entry.headword
            /\ ipa' = NormalizeIpa(entry.ipa)
            /\ i_stress' = -1
            /\ i_word' = 0
            /\ v_count' = 0
            /\ i_char' = 0
            /\ UNCHANGED result
    /\ UNCHANGED <<tool_vars, loaded, sk_vars, val_vars, exp_vars, entry, i_vowel, needs_stress, i_for>>

\* lines 36-48: one iteration of the predictability loop
MsPredictStep ==
    /\ pc = "predict"
    /\ i_char < Len(ipa)
    /\ LET char == At(ipa, i_char)
           is1 == IF char = MARKER THEN i_char ELSE i_stress
           vc1 == IF char # MARKER /\ IsVowel(char, vowels) THEN v_count + 1 ELSE v_count
           bnd == AtBoundary(char, i_char, ipa)
           del == bnd /\ Predictable(vc1, is1, i_word)
           ic1 == IF del THEN IndexAfterDelete(i_char) ELSE i_char
       IN /\ i_stress' = is1
          /\ ipa' = IF del THEN DeleteAt(ipa, is1) ELSE ipa
          /\ i_word' = IF bnd THEN ic1 + 1 ELSE i_word
          /\ v_count' = IF bnd THEN 0 ELSE vc1
          /\ i_char' = ic1 + 1
    /\ UNCHANGED <<tool_vars, loaded, sk_vars, val_vars, exp_vars, entry, pc, headword, i_vowel, needs_stress, i_for, result>>

\* lines 36, 50-55: the loop ends; return when no marker is left
MsPredictExit ==
    /\ pc = "predict"
    /\ ~(i_char < Len(ipa))
    /\ IF ~Contains(ipa, MARKER)
       THEN /\ pc' = "done"
            /\ result' = headword
            /\ UNCHANGED <<i_vowel, needs_stress, i_for>>
       ELSE /\ pc' = "place"
            /\ i_vowel' = -1
            /\ needs_stress' = FALSE
            /\ i_for' = 0
            /\ UNCHANGED result
    /\ UNCHANGED <<tool_vars, loaded, sk_vars, val_vars, exp_vars, entry, headword, ipa, i_stress, i_word, v_count, i_char>>

\* lines 57-69: one iteration of the placement loop, for the character
\* ipa[i_for]
MsPlaceStep ==
    /\ pc = "place"
    /\ i_for < Len(ipa)
    /\ LET char == At(ipa, i_for)
           ns1 == needs_stress \/ char = MARKER
           iv1 == FindVowel(headword, char, vowels, i_vowel)
       IN IF ~IsVowel(char, vowels)
          THEN /\ needs_stress' = ns1
               /\ i_for' = i_for + 1
               /\ UNCHANGED <<pc, headword, i_vowel, result>>
          ELSE IF iv1 = -1
          THEN /\ pc' = "done"
               /\ result' = NotFoundResult(entry, headword)
               /\ i_vowel' = iv1
               /\ needs_stress' = ns1
               /\ UNCHANGED <<headword, i_for>>
          ELSE IF ns1
          THEN /\ headword' = InsertMark(headword, iv1)
               /\ i_vowel' = iv1 + 1
               /\ needs_stress' = ConsumedFlag(ns1)
               /\ i_for' = i_for + 1
               /\ UNCHANGED <<pc, result>>
          ELSE /\ i_vowel' = iv1
               /\ needs_stress' = ns1
               /\ i_for' = i_for + 1
               /\ UNCHANGED <<pc, headword, result>>
    /\ UNCHANGED <<tool_vars, loaded, sk_vars, val_vars, exp_vars, entry, ipa, i_stress, i_word, v_count, i_char>>

\* lines 57, 71: the for loop is exhausted
MsPlaceExit ==
    /\ pc = "place"
    /\ ~(i_for < Len(ipa))
    /\ pc' = "done"
    /\ result' = headword
    /\ UNCHANGED <<tool_vars, loaded, sk_vars, val_vars, exp_vars, entry, headword, ipa, i_stress, i_word, v_count, i_char,
                   i_vowel, needs_stress, i_for>>

(* ----------------------- mark_stress as a function -------------------- *)

RECURSIVE PredictPass(_, _, _, _, _, _)
\* lines 36-48: the IPA string the predictability loop leaves, from the
\* loop state (ipa, i_stress, i_word, v_count, i_char) on
PredictPass(s, is, iw, vc, ic, vmap) ==
    IF ~(ic < Len(s)) THEN s
    ELSE LET char == At(s, ic)
             is1 == IF char = MARKER THEN ic ELSE is
             vc1 == IF char # MARKER /\ IsVowel(char, vmap) THEN vc + 1 ELSE vc
             bnd == AtBoundary(char, ic, s)
             del == bnd /\ Predictable(vc1, is1, iw)
             ic1 == IF del THEN IndexAfterDelete(ic) ELSE ic
         IN PredictPass(IF del THEN DeleteAt(s, is1) ELSE s,
                        is1,
                        IF bnd THEN ic1 + 1 ELSE iw,
                        IF bnd THEN 0 ELSE vc1,
                        ic1 + 1,
                        vmap)

RECURSIVE PlacePass(_, _, _, _, _, _, _)
\* lines 57-71: the value the placement loop returns, from the loop state
\* (headword, i_vowel, needs_stress) at the character number k of ipa on
PlacePass(e, h, s, iv, ns, k, vmap) ==
    IF ~(k < Len(s)) THEN h
    ELSE LET char == At(s, k)
             ns1 == ns \/ char = MARKER
             iv1 == FindVowel(h, char, vmap, iv)
         IN IF ~IsVowel(char, vmap) THEN PlacePass(e, h, s, iv, ns1, k + 1, vmap)
            ELSE IF iv1 = -1 THEN NotFoundResult(e, h)
            ELSE IF ns1
            THEN PlacePass(e, InsertMark(h, iv1), s, iv1 + 1, ConsumedFlag(ns1), k + 1, vmap)
            ELSE PlacePass(e, h, s, iv1, ns1, k + 1, vmap)

\* mark_stress(entry, vowels) for an entry whose 'ipa' is absent, null or a
\* string
MarkStress(e, vmap) ==
    IF NoIpa(e) THEN e.headword
    ELSE LET s == PredictPass(NormalizeIpa(e.ipa), -1, 0, 0, 0, vmap)
         IN IF ~Contains(s, MARKER) THEN e.headword
            ELSE PlacePass(e, e.headword, s, -1, FALSE, 0, vmap)

(* ------------------------- inputs of mark_stress ----------------------- *)

IpaCore == {"a", "e", "P", "-"}

IpaVariants == {"a", "x", "S", "'", " "}

HwCore == {"a", "e", "h"}

HwVariants == {"a", "A", ACUTE}

IpaInputs == SeqsUpTo(IpaCore, MaxIpaLen) \cup SeqsUpTo(IpaVariants, MaxIpaLen - 1)

HwInputs == SeqsUpTo(HwCore, MaxHwLen) \cup SeqsUpTo(HwVariants, MaxHwLen - 1)

Entries ==
    [headword : HwInputs, ipa_kind : {"str"}, ipa : IpaInputs]
      \cup [headword : HwInputs, ipa_kind : {"absent", "null"}, ipa : {<<>>}]

\* the module-level state of an export script after load_alphabet()
InitLoaded ==
    /\ table = DefaultTable
    /\ alphabet = Alphabet(table)
    /\ alphabet_tokens = AlphabetTokens(table)
    /\ vowels = LoadVowels(table)

InitRenameIdle ==
    /\ disk_dirs = {}
    /\ disk_files = {}
    /\ rpc = "idle"
    /\ walk_stack = <<>>
    /\ renames = <<>>
    /\ i_rename = 0
    /\ rename_count = -1

InitFormsIdle ==
    /\ sf_forms = <<>>
    /\ sf_headword = <<>>
    /\ sf_tags = {}
    /\ sf_pc = "idle"
    /\ sf_result = <<>>

InitFixIdle ==
    /\ fx_file = <<>>
    /\ fx_original = <<>>
    /\ fx_runs = 0
    /\ fx_changed = <<>>

InitToolsIdle ==
    /\ InitRenameIdle
    /\ InitFormsIdle
    /\ InitFixIdle

InitValidateIdle ==
    /\ lexicon_files = <<>>
    /\ vpc = "idle"
    /\ i_file = 0
    /\ id_to_files = <<>>
    /\ i_id = 0
    /\ has_errors = FALSE
    /\ reported = <<>>
    /\ id_result = "unset"
    /\ exit_status = -1

InitScriptIdle ==
    /\ script = "none"
    /\ xpc = "idle"
    /\ i_letter = 0
    /\ i_yaml = 0
    /\ entries_by_letter = <<>>
    /\ total_entries = 0
    /\ skipped_entries = 0
    /\ all_entries = <<>>
    /\ converted_entries = <<>>
    /\ output = <<>>
    /\ script_status = -1

InitMainIdle ==
    /\ script_exists = <<TRUE, TRUE, TRUE>>
    /\ epc = "idle"
    /\ i_script = 0
    /\ success_count = 0
    /\ export_status = -1
    /\ started = <<>>
    /\ written = <<>>

InitExportIdle ==
    /\ lexicon = <<>>
    /\ InitMainIdle
    /\ InitScriptIdle

InitSortIdle ==
    /\ pair = <<>>
    /\ n_keyed = 0
    /\ spc = "idle"
    /\ word = <<>>
    /\ i = 0
    /\ tokens = <<>>
    /\ token_lists = <<>>
    /\ keys = <<>>

Init ==
    /\ InitLoaded
    /\ InitExportIdle
    /\ InitSortIdle
    /\ InitValidateIdle
    /\ InitToolsIdle
    /\ entry \in Entries
    /\ pc = "call"
    /\ headword = <<>>
    /\ ipa = <<>>
    /\ i_stress = -1
    /\ i_word = 0
    /\ v_count = 0
    /\ i_char = 0
    /\ i_vowel = -1
    /\ needs_stress = FALSE
    /\ i_for = 0
    /\ result = <<>>

Next == MsEnter \/ MsPredictStep \/ MsPredictExit \/ MsPlaceStep \/ MsPlaceExit

Spec == Init /\ [][Next]_vars

(* ----------------------- sorting_key as steps -------------------------- *)

\* k1 < k2 for two Python lists of integers, as list.sort compares keys
ListLess(k1, k2) ==
    \/ /\ Len(k1) < Len(k2)
       /\ \A m \in 1..Len(k1) : k1[m] = k2[m]
    \/ \E d \in 1..Len(k1) :
         /\ d <= Len(k2)
         /\ \A m \in 1..(d - 1) : k1[m] = k2[m]
         /\ k1[d] < k2[d]

\* entry['headword'] exists and has the method lower()
HeadwordIsString(e) == e.hw_kind = "str"

\* lines 30-32 and 13: sorting_key lower-cases the headword and removes the
\* accents, tokenize lower-cases its argument and starts its loop
\* (entry['headword'].lower() stands before the try of line 33: a missing
\* headword raises KeyError there, a headword that is not a string
\* AttributeError, and neither is caught)
SkCall ==
    /\ spc = "idle"
    /\ n_keyed < Len(pair)
    /\ IF HeadwordIsString(pair[n_keyed + 1])
       THEN /\ word' = Lower(StripAccents(Lower(pair[n_keyed + 1].headword)))
            /\ i' = 0
            /\ tokens' = <<>>
            /\ spc' = "tokenize"
       ELSE /\ spc' = "raised"
            /\ UNCHANGED <<word, i, tokens>>
    /\ UNCHANGED <<tool_vars, loaded, ms_vars, val_vars, exp_vars, pair, n_keyed, token_lists, keys>>

\* lines 14-26: one iteration of the while loop of tokenize
TkStep ==
    /\ spc = "tokenize"
    /\ i < Len(word)
    /\ LET t == TokenAt(word, i, alphabet_tokens)
       IN /\ tokens' = Append(tokens, t)
          /\ i' = i + Len(t)
    /\ UNCHANGED <<tool_vars, loaded, ms_vars, val_vars, exp_vars, pair, n_keyed, spc, word, token_lists, keys>>

\* lines 14, 27, 34: tokenize returns its tokens, sorting_key returns their
\* ranks (for a string headword nothing inside the try of line 33 can raise,
\* so the except of lines 35-36 is not entered)
SkReturn ==
    /\ spc = "tokenize"
    /\ ~(i < Len(word))
    /\ token_lists' = Append(token_lists, tokens)
    /\ keys' = Append(keys, RanksOf(tokens, alphabet))
    /\ n_keyed' = n_keyed + 1
    /\ spc' = "idle"
    /\ UNCHANGED <<tool_vars, loaded, ms_vars, val_vars, exp_vars, pair, word, i, tokens>>

(* ------------------------- inputs of sorting_key ----------------------- *)

MaxWordLen == 3

MaxOtherLen == 2

SortCore == {"a", "k", "h", "w", "z", "-"}

SortVariants == {"K", "h", ACUTE, " "}

SortOther == {"a", "k", "h", "z"}

SortWords == SeqsUpTo(SortCore, MaxWordLen) \cup SeqsUpTo(SortVariants, MaxWordLen - 1)

OtherWords == SeqsUpTo(SortOther, MaxOtherLen)

\* the entries given to sorting_key: a string headword, no 'headword' key,
\* or a headword that is not a string (YAML null or a number)
SortEntries ==
    [headword : SortWords, hw_kind : {"str"}]
      \cup [headword : {<<>>}, hw_kind : {"missing", "nonstr"}]

InitStressIdle ==
    /\ entry = [headword |-> <<>>, ipa_kind |-> "absent", ipa |-> <<>>]
    /\ pc = "idle"
    /\ headword = <<>>
    /\ ipa = <<>>
    /\ i_stress = -1
    /\ i_word = 0
    /\ v_count = 0
    /\ i_char = 0
    /\ i_vowel = -1
    /\ needs_stress = FALSE
    /\ i_for = 0
    /\ result = <<>>

InitSort ==
    /\ InitLoaded
    /\ InitExportIdle
    /\ InitStressIdle
    /\ InitValidateIdle
    /\ InitToolsIdle
    /\ \E e1 \in SortEntries, w2 \in OtherWords :
           pair = << e1, [headword |-> w2, hw_kind |-> "str"] >>
    /\ n_keyed = 0
    /\ spc = "idle"
    /\ word = <<>>
    /\ i = 0
    /\ tokens = <<>>
    /\ token_lists = <<>>
    /\ keys = <<>>

NextSort == SkCall \/ TkStep \/ SkReturn

SpecSort == InitSort /\ [][NextSort]_vars

(* ---------------- mark_stress followed by sorting_key ------------------ *)

\* to_json_web.py lines 218-224: the entry converted by convert_entry, whose
\* headword is the result of mark_stress, is given to sorting_key
KeyOfConverted ==
    /\ pc = "done"
    /\ spc = "idle"
    /\ pair = <<>>
    /\ pair' = << [headword |-> result, hw_kind |-> "str"] >>
    /\ UNCHANGED <<tool_vars, loaded, ms_vars, val_vars, exp_vars, n_keyed, spc, word, i, tokens,
                   token_lists, keys>>

\* the entries converted in this model
LoopEntries ==
    [headword : SeqsUpTo(HwCore, MaxHwLen - 1), ipa_kind : {"str"},
     ipa : SeqsUpTo(IpaCore, MaxIpaLen - 1)]

InitLoops ==
    /\ InitLoaded
    /\ InitExportIdle
    /\ InitSortIdle
    /\ InitValidateIdle
    /\ InitToolsIdle
    /\ entry \in LoopEntries
    /\ pc = "call"
    /\ headword = <<>>
    /\ ipa = <<>>
    /\ i_stress = -1
    /\ i_word = 0
    /\ v_count = 0
    /\ i_char = 0
    /\ i_vowel = -1
    /\ needs_stress = FALSE
    /\ i_for = 0
    /\ result = <<>>

NextLoops ==
    \/ MsEnter
    \/ MsPredictStep
    \/ MsPredictExit
    \/ MsPlaceStep
    \/ MsPlaceExit
    \/ KeyOfConverted
    \/ SkCall
    \/ TkStep
    \/ SkReturn

\* the interpreter runs the next statement of a sequential program
SpecLoops == InitLoops /\ [][NextLoops]_vars /\ WF_vars(NextLoops)

(* ----------------------------- load_alphabet --------------------------- *)

MaxTableLen == 3

\* load_alphabet: the three values are derived from the table read from
\* data/alphabet.yaml
LoadAlphabet ==
    /\ alphabet_tokens = <<>>
    /\ alphabet' = Alphabet(table)
    /\ alphabet_tokens' = AlphabetTokens(table)
    /\ vowels' = LoadVowels(table)
    /\ UNCHANGED <<tool_vars, table, ms_vars, sk_vars, val_vars, exp_vars>>

\* the rows of the tables of this model; a YAML mapping has each grapheme
\* once, an IPA symbol may be shared
TableRows ==
    [grapheme : {<<"a">>, <<"e", "h">>, <<"u">>, <<"k">>},
     type : {"vowel", "consonant"},
     ipa : {<<"a">>, <<"e">>}]

Tables ==
    {t \in SeqsUpTo(TableRows, MaxTableLen) :
        \A k, m \in 1..Len(t) : k # m => t[k].grapheme # t[m].grapheme}

InitAlphabet ==
    /\ table \in Tables
    /\ alphabet = <<>>
    /\ alphabet_tokens = <<>>
    /\ vowels = <<>>
    /\ InitExportIdle
    /\ InitStressIdle
    /\ InitSortIdle
    /\ InitValidateIdle
    /\ InitToolsIdle

NextAlphabet == LoadAlphabet

SpecAlphabet == InitAlphabet /\ [][NextAlphabet]_vars

(* --------------------- validate_id_collisions -------------------------- *)

MaxFiles == 4

\* the ids that occur in the lexicon of the model
Ids == {"w1", "w42"}

\* what yaml.safe_load gives for a file: an entry with an id, a mapping
\* without 'id', or nothing (an empty file)
FileData ==
    [kind : {"entry"}, id : Ids] \cup [kind : {"noid", "empty"}, id : {"none"}]

\* data and 'id' in data
HasId(data) == data.kind = "entry"

\* the position of the key k in the dict d (a sequence of [id, files]
\* records in insertion order), or 0
KeyPos(d, k) ==
    IF \E j \in 1..Len(d) : d[j].id = k
    THEN CHOOSE j \in 1..Len(d) : d[j].id = k
    ELSE 0

\* id_to_files[k].append(f) on a defaultdict(list)
DictAppend(d, k, f) ==
    IF KeyPos(d, k) = 0
    THEN Append(d, [id |-> k, files |-> <<f>>])
    ELSE [d EXCEPT ![KeyPos(d, k)].files = Append(@, f)]

\* bug: an id is reported only from its third file on
IsCollision_Three(files) == Len(files) > 2

\* len(files) > 1
IsCollision(files) == Len(files) > 1

\* bug: 'not tag_result' in place of 'tag_result is None'
ValidationFailed_Falsy(idr, tagr) == idr = "None" \/ tagr # "True"

\* id_result is None or tag_result is None
ValidationFailed(idr, tagr) == idr = "None" \/ tagr = "None"

\* validate.py line 20: tag validation is switched off
TagResult == "False"

\* lines 14-18: one file of the rglob scan (files are named by their
\* position in lexicon_files)
ValScanFile ==
    /\ vpc = "scan"
    /\ i_file < Len(lexicon_files)
    /\ id_to_files' = IF HasId(lexicon_files[i_file + 1])
                      THEN DictAppend(id_to_files, lexicon_files[i_file + 1].id, i_file + 1)
                      ELSE id_to_files
    /\ i_file' = i_file + 1
    /\ UNCHANGED <<tool_vars, loaded, ms_vars, sk_vars, exp_vars, lexicon_files, vpc, i_id, has_errors,
                   reported, id_result, exit_status>>

\* lines 14, 21: the scan is over, the check starts
ValScanDone ==
    /\ vpc = "scan"
    /\ ~(i_file < Len(lexicon_files))
    /\ vpc' = "check"
    /\ has_errors' = FALSE
    /\ i_id' = 0
    /\ UNCHANGED <<tool_vars, loaded, ms_vars, sk_vars, exp_vars, lexicon_files, i_file, id_to_files,
                   reported, id_result, exit_status>>

\* lines 22-27: one item of id_to_files
ValCheckId ==
    /\ vpc = "check"
    /\ i_id < Len(id_to_files)
    /\ IF IsCollision(id_to_files[i_id + 1].files)
       THEN /\ has_errors' = TRUE
            /\ reported' = Append(reported, id_to_files[i_id + 1])
       ELSE UNCHANGED <<has_errors, reported>>
    /\ i_id' = i_id + 1
    /\ UNCHANGED <<tool_vars, loaded, ms_vars, sk_vars, exp_vars, lexicon_files, vpc, i_file, id_to_files,
                   id_result, exit_status>>

\* lines 29-31: None on failure, True on success
ValReturn ==
    /\ vpc = "check"
    /\ ~(i_id < Len(id_to_files))
    /\ id_result' = IF has_errors THEN "None" ELSE "True"
    /\ vpc' = "main"
    /\ UNCHANGED <<tool_vars, loaded, ms_vars, sk_vars, exp_vars, lexicon_files, i_file, id_to_files, i_id,
                   has_errors, reported, exit_status>>

\* validate.py lines 20-28: the exit status
ValMainExit ==
    /\ vpc = "main"
    /\ exit_status' = IF ValidationFailed(id_result, TagResult) THEN 1 ELSE 0
    /\ vpc' = "exited"
    /\ UNCHANGED <<tool_vars, loaded, ms_vars, sk_vars, exp_vars, lexicon_files, i_file, id_to_files, i_id,
                   has_errors, reported, id_result>>

InitValidate ==
    /\ InitLoaded
    /\ InitExportIdle
    /\ InitStressIdle
    /\ InitSortIdle
    /\ InitToolsIdle
    /\ lexicon_files \in SeqsUpTo(FileData, MaxFiles)
    /\ vpc = "scan"
    /\ i_file = 0
    /\ id_to_files = <<>>
    /\ i_id = 0
    /\ has_errors = FALSE
    /\ reported = <<>>
    /\ id_result = "unset"
    /\ exit_status = -1

NextValidate == ValScanFile \/ ValScanDone \/ ValCheckId \/ ValReturn \/ ValMainExit

SpecValidate == InitValidate /\ [][NextValidate]_vars

(* ------------------------ load_lexicon_entries ------------------------- *)

MaxDirFiles == 2

RequiredFields == {"id", "headword", "definitions"}

\* a YAML file of a letter directory, as the loader sees it: load is "error"
\* when open or yaml.safe_load raises, "none" when the document is empty,
\* "map" for a mapping with the keys 'keys'; headword, ipa and eng (the
\* English translation of its definition) are the values the exports read
YamlFile(ld, ks, hw, hk) ==
    [load |-> ld, keys |-> ks, headword |-> hw, hw_kind |-> hk,
     ipa_kind |-> "absent", ipa |-> <<>>, eng |-> IF "definitions" \in ks THEN <<"d">> ELSE <<>>]

UnreadableFile == YamlFile("error", {}, <<>>, "missing")

EmptyFile == YamlFile("none", {}, <<>>, "missing")

\* bug: 'definitions' is not required
ValidateEntry_NoDefinitions(d) == "id" \in d.keys /\ "headword" \in d.keys

\* 'id' in yaml_data and 'headword' in yaml_data and 'definitions' in yaml_data
ValidateEntry(d) ==
    "id" \in d.keys /\ "headword" \in d.keys /\ "definitions" \in d.keys

\* lines 61-76 for one file: TRUE when the file is appended to the result;
\* an exception of the load, or of validate_fn on a document that is None,
\* is caught by the except of line 74
Accepted(f) ==
    /\ f.load # "error"
    /\ f.load # "none"
    /\ ValidateEntry(f)

\* letter_dir.exists()
DirExists(lex, letter) == letter \in DOMAIN lex

\* letter in entries_by_letter
InDict(d, letter) == \E g \in 1..Len(d) : d[g].letter = letter

\* entries_by_letter[letter]
EntriesOf(d, letter) == d[CHOOSE g \in 1..Len(d) : d[g].letter = letter].entries

\* lines 52-58: the next letter of the alphabet
LoadLetter ==
    /\ xpc = "load_letter"
    /\ i_letter < Len(alphabet)
    /\ IF ~DirExists(lexicon, alphabet[i_letter + 1])
       THEN /\ i_letter' = i_letter + 1
            /\ UNCHANGED <<xpc, i_yaml, entries_by_letter>>
       ELSE /\ entries_by_letter' =
                  Append(entries_by_letter, [letter |-> alphabet[i_letter + 1], entries |-> <<>>])
            /\ i_yaml' = 0
            /\ xpc' = "load_file"
            /\ UNCHANGED i_letter
    /\ UNCHANGED <<tool_vars, loaded, ms_vars, sk_vars, val_vars, main_vars, script, total_entries,
                   skipped_entries, all_entries, converted_entries, output, script_status>>

\* lines 60-76: the next file of sorted(letter_dir.glob('*.yaml'))
LoadFile ==
    /\ xpc = "load_file"
    /\ i_yaml < Len(lexicon[alphabet[i_letter + 1]])
    /\ LET f == lexicon[alphabet[i_letter + 1]][i_yaml + 1]
       IN IF Accepted(f)
          THEN /\ entries_by_letter' =
                     [entries_by_letter EXCEPT ![Len(entries_by_letter)].entries = Append(@, f)]
               /\ total_entries' = total_entries + 1
               /\ UNCHANGED skipped_entries
          ELSE /\ skipped_entries' = skipped_entries + 1
               /\ UNCHANGED <<entries_by_letter, total_entries>>
    /\ i_yaml' = i_yaml + 1
    /\ UNCHANGED <<tool_vars, loaded, ms_vars, sk_vars, val_vars, main_vars, script, xpc, i_letter,
                   all_entries, converted_entries, output, script_status>>

\* line 60: the directory is exhausted
LoadDirDone ==
    /\ xpc = "load_file"
    /\ ~(i_yaml < Len(lexicon[alphabet[i_letter + 1]]))
    /\ i_letter' = i_letter + 1
    /\ xpc' = "load_letter"
    /\ UNCHANGED <<tool_vars, loaded, ms_vars, sk_vars, val_vars, main_vars, script, i_yaml,
                   entries_by_letter, total_entries, skipped_entries, all_entries,
                   converted_entries, output, script_status>>

\* lines 52, 78: the alphabet is exhausted, the three results are returned
LoadReturn ==
    /\ xpc = "load_letter"
    /\ ~(i_letter < Len(alphabet))
    /\ xpc' = "process"
    /\ i_letter' = 0
    /\ UNCHANGED <<tool_vars, loaded, ms_vars, sk_vars, val_vars, main_vars, script, i_yaml,
                   entries_by_letter, total_entries, skipped_entries, all_entries,
                   converted_entries, output, script_status>>

\* the letters that have a directory in the lexicons of the model
DirLetters == {<<"a">>, <<"k", "h">>}

\* the files of the lexicons of the loader model
LoadFiles ==
    {UnreadableFile, EmptyFile}
      \cup {YamlFile("map", ks, <<"a">>, IF "headword" \in ks THEN "str" ELSE "missing") :
              ks \in {RequiredFields} \cup {RequiredFields \ {r} : r \in RequiredFields}}

\* every lexicon whose directories are among D, each with at most
\* MaxDirFiles files of F
Lexicons(D, F) == UNION {[dirs -> SeqsUpTo(F, MaxDirFiles)] : dirs \in SUBSET D}

\* a script (or, for "none", the loader alone) at the call of
\* load_lexicon_entries
InitScript(name) ==
    /\ script = name
    /\ xpc = "load_letter"
    /\ i_letter = 0
    /\ i_yaml = 0
    /\ entries_by_letter = <<>>
    /\ total_entries = 0
    /\ skipped_entries = 0
    /\ all_entries = <<>>
    /\ converted_entries = <<>>
    /\ output = <<>>
    /\ script_status = -1

InitCall ==
    /\ InitLoaded
    /\ InitStressIdle
    /\ InitSortIdle
    /\ InitValidateIdle
    /\ InitToolsIdle
    /\ InitMainIdle

InitLoad ==
    /\ InitCall
    /\ lexicon \in Lexicons(DirLetters, LoadFiles)
    /\ InitScript("none")

NextLoad == LoadLetter \/ LoadFile \/ LoadDirDone \/ LoadReturn

SpecLoad == InitLoad /\ [][NextLoad]_vars

(* --------------------------- export scripts ---------------------------- *)

ExportScripts == <<"to_json_web.py", "to_json_archive.py", "to_csv.py">>

NEWLINE == "\n"

\* mark_stress(entry, vowels)
StressedHeadword(e) == MarkStress(e, vowels)

\* get_headword_with_ipa: 'headword\nipa', or the headword alone
GetHeadwordWithIpa(e) ==
    IF ~NoIpa(e)
    THEN StressedHeadword(e) \o <<NEWLINE>> \o e.ipa
    ELSE StressedHeadword(e)

\* bug: the key is taken from the whole cell, IPA line included
FirstLine_Whole(s) == s

\* s.split('\n')[0]
FirstLine(s) ==
    IF Contains(s, NEWLINE) THEN Prefix(s, Find(s, <<NEWLINE>>, 0)) ELSE s

\* convert_entry_to_csv for an entry without tags, forms and variants and
\* with an English translation only
ConvertEntryToCsv(e) ==
    [letter |-> <<>>, tags |-> <<>>, headword |-> GetHeadwordWithIpa(e), eng |-> e.eng,
     rus |-> <<>>, forms |-> <<>>, variants |-> <<>>]

\* to_csv.py lines 129-132
SeparatorRow(letter) ==
    [letter |-> letter, tags |-> <<>>, headword |-> <<>>, eng |-> <<>>,
     rus |-> <<>>, forms |-> <<>>, variants |-> <<>>]

\* bug: the separator row follows the rows of its letter
AddGroup_SeparatorLast(rows, letter, entries) ==
    rows \o entries \o <<SeparatorRow(letter)>>

\* to_csv.py lines 129-135: all_entries.append(separator);
\* all_entries.extend(entries)
AddGroup(rows, letter, entries) ==
    rows \o <<SeparatorRow(letter)>> \o entries

\* convert_entry for an entry without optional fields
ConvertEntry(e) ==
    [headword |-> StressedHeadword(e), hw_kind |-> e.hw_kind, eng |-> e.eng]

\* insertion of the index j into the index list s, sorted by the keys ks,
\* behind every index whose key is not greater
InsertByKey(s, j, ks) ==
    LET nn == Cardinality({q \in 1..Len(s) : ~ListLess(ks[j], ks[s[q]])})
    IN SubSeq(s, 1, nn) \o <<j>> \o SubSeq(s, nn + 1, Len(s))

RECURSIVE StableOrder(_, _)
\* the indices 1..nn in the order list.sort gives them for the keys ks:
\* ascending, equal keys in their original order
StableOrder(ks, nn) ==
    IF nn = 0 THEN <<>> ELSE InsertByKey(StableOrder(ks, nn - 1), nn, ks)

\* bug: the list is left as it was loaded
SortByKeys_Unsorted(items, ks) == items

\* items.sort(key=...), the keys given as a list
SortByKeys(items, ks) ==
    LET ord == StableOrder(ks, Len(items))
    IN [k \in 1..Len(items) |-> items[ord[k]]]

\* the keys sorting_key gives for entries with string headwords
KeysOf(es) == [k \in 1..Len(es) |-> SortingKey(es[k], alphabet, alphabet_tokens)]

\* the keys of the lambda of to_csv.py line 126
CsvKeysOf(rows) ==
    [k \in 1..Len(rows) |->
        SortingKey([headword |-> FirstLine(rows[k].headword)], alphabet, alphabet_tokens)]

\* the key function raises for some entry of the list: a headword that is
\* None or a number has neither lower() nor split()
SortRaises(es) == \E k \in 1..Len(es) : ~HeadwordIsString(es[k])

\* to_json_web.py lines 211-225: one letter of the alphabet
WebLetter ==
    /\ xpc = "process"
    /\ script = "to_json_web.py"
    /\ i_letter < Len(alphabet)
    /\ LET letter == alphabet[i_letter + 1]
           es == EntriesOf(entries_by_letter, letter)
           converted == [k \in 1..Len(es) |-> ConvertEntry(es[k])]
       IN IF ~InDict(entries_by_letter, letter)
          THEN /\ i_letter' = i_letter + 1
               /\ UNCHANGED <<xpc, converted_entries, script_status>>
          ELSE IF SortRaises(converted)
          THEN /\ xpc' = "exited"
               /\ script_status' = 1
               /\ UNCHANGED <<i_letter, converted_entries>>
          ELSE /\ converted_entries' =
                     Append(converted_entries,
                            [letter |-> letter,
                             entries |-> SortByKeys(converted, KeysOf(converted))])
               /\ i_letter' = i_letter + 1
               /\ UNCHANGED <<xpc, script_status>>
    /\ UNCHANGED <<tool_vars, loaded, ms_vars, sk_vars, val_vars, main_vars, script, i_yaml,
                   entries_by_letter, total_entries, skipped_entries, all_entries, output>>

\* to_json_archive.py lines 33-34: one letter of entries_by_letter
ArchiveLetter ==
    /\ xpc = "process"
    /\ script = "to_json_archive.py"
    /\ i_letter < Len(entries_by_letter)
    /\ LET es == entries_by_letter[i_letter + 1].entries
       IN IF SortRaises(es)
          THEN /\ xpc' = "exited"
               /\ script_status' = 1
               /\ UNCHANGED <<i_letter, entries_by_letter>>
          ELSE /\ entries_by_letter' =
                     [entries_by_letter EXCEPT ![i_letter + 1].entries = SortByKeys(es, KeysOf(es))]
               /\ i_letter' = i_letter + 1
               /\ UNCHANGED <<xpc, script_status>>
    /\ UNCHANGED <<tool_vars, loaded, ms_vars, sk_vars, val_vars, main_vars, script, i_yaml,
                   total_entries, skipped_entries, all_entries, converted_entries, output>>

\* to_csv.py lines 115-135: one letter of the alphabet
CsvLetter ==
    /\ xpc = "process"
    /\ script = "to_csv.py"
    /\ i_letter < Len(alphabet)
    /\ LET letter == alphabet[i_letter + 1]
           es == EntriesOf(entries_by_letter, letter)
           entries == [k \in 1..Len(es) |-> ConvertEntryToCsv(es[k])]
       IN IF ~InDict(entries_by_letter, letter)
          THEN /\ i_letter' = i_letter + 1
               /\ UNCHANGED <<xpc, all_entries, script_status>>
          ELSE IF SortRaises(es)
          THEN /\ xpc' = "exited"
               /\ script_status' = 1
               /\ UNCHANGED <<i_letter, all_entries>>
          ELSE /\ all_entries' =
                     AddGroup(all_entries, letter, SortByKeys(entries, CsvKeysOf(entries)))
               /\ i_letter' = i_letter + 1
               /\ UNCHANGED <<xpc, script_status>>
    /\ UNCHANGED <<tool_vars, loaded, ms_vars, sk_vars, val_vars, main_vars, script, i_yaml,
                   entries_by_letter, total_entries, skipped_entries, converted_entries, output>>

\* the loop of the script over the letters is exhausted
LettersDone ==
    IF script = "to_json_archive.py"
    THEN ~(i_letter < Len(entries_by_letter))
    ELSE ~(i_letter < Len(alphabet))

\* the end of main: the output file is written, print_export_stats prints the
\* two counts, and main returns, so that the interpreter exits with status 0
ScriptWrite ==
    /\ xpc = "process"
    /\ script \in {ExportScripts[k] : k \in 1..Len(ExportScripts)}
    /\ LettersDone
    /\ output' = IF script = "to_json_web.py" THEN converted_entries
                 ELSE IF script = "to_json_archive.py" THEN entries_by_letter
                 ELSE all_entries
    /\ written' = Append(written, [script |-> script, output |-> output'])
    /\ script_status' = 0
    /\ xpc' = "exited"
    /\ UNCHANGED <<tool_vars, loaded, ms_vars, sk_vars, val_vars, lexicon, script_exists, epc, i_script,
                   success_count, export_status, started, script, i_letter, i_yaml,
                   entries_by_letter, total_entries, skipped_entries, all_entries,
                   converted_entries>>

\* the headwords of the lexicons of the CSV model
CsvWords == {<<"k", "h">>, <<"k", "w">>}

\* the files of the lexicons of the CSV model: complete entries, an entry
\* whose headword is null, an entry without definitions
CsvFiles ==
    {YamlFile("map", RequiredFields, w, "str") : w \in CsvWords}
      \cup {YamlFile("map", RequiredFields, <<>>, "nonstr"),
            YamlFile("map", RequiredFields \ {"definitions"}, <<"k", "h">>, "str")}

InitCsv ==
    /\ InitCall
    /\ lexicon \in Lexicons(DirLetters, CsvFiles)
    /\ InitScript("to_csv.py")

NextCsv == LoadLetter \/ LoadFile \/ LoadDirDone \/ LoadReturn \/ CsvLetter \/ ScriptWrite

SpecCsv == InitCsv /\ [][NextCsv]_vars

(* ------------------------------ export.py ------------------------------ *)

\* export.py lines 44-47 and run_script lines 15-20: the next script is
\* passed over when its file does not exist, and started otherwise
ExpNextScript ==
    /\ epc = "loop"
    /\ xpc = "idle"
    /\ i_script < Len(ExportScripts)
    /\ IF ~script_exists[i_script + 1]
       THEN /\ i_script' = i_script + 1
            /\ UNCHANGED <<script_vars, started>>
       ELSE /\ started' = Append(started, ExportScripts[i_script + 1])
            /\ script' = ExportScripts[i_script + 1]
            /\ xpc' = "load_letter"
            /\ i_letter' = 0
            /\ i_yaml' = 0
            /\ entries_by_letter' = <<>>
            /\ total_entries' = 0
            /\ skipped_entries' = 0
            /\ all_entries' = <<>>
            /\ converted_entries' = <<>>
            /\ output' = <<>>
            /\ script_status' = -1
            /\ UNCHANGED i_script
    /\ UNCHANGED <<tool_vars, loaded, ms_vars, sk_vars, val_vars, lexicon, script_exists, epc,
                   success_count, export_status, written>>

\* run_script lines 21-28 and export.py lines 49-51: check=True raises
\* CalledProcessError for a non-zero exit status, run_script returns False
\* then and True otherwise
ExpScriptEnd ==
    /\ epc = "loop"
    /\ xpc = "exited"
    /\ success_count' = IF script_status = 0 THEN success_count + 1 ELSE success_count
    /\ i_script' = i_script + 1
    /\ xpc' = "idle"
    /\ UNCHANGED <<tool_vars, loaded, ms_vars, sk_vars, val_vars, lexicon, script_exists, epc,
                   export_status, started, written, script, i_letter, i_yaml, entries_by_letter, total_entries,
                   skipped_entries, all_entries, converted_entries, output, script_status>>

\* bug: only a run without any success is a failure
ExportFailed_NoSuccess(sc) == sc < Len(<<"one">>)

\* line 55: success_count < len(export_scripts)
ExportFailed(sc) == sc < Len(ExportScripts)

\* export.py lines 53-56: sys.exit(1) when a script did not succeed, the
\* normal end of main (status 0) otherwise
ExpExit ==
    /\ epc = "loop"
    /\ xpc = "idle"
    /\ ~(i_script < Len(ExportScripts))
    /\ export_status' = IF ExportFailed(success_count) THEN 1 ELSE 0
    /\ epc' = "exited"
    /\ UNCHANGED <<tool_vars, loaded, ms_vars, sk_vars, val_vars, lexicon, script_exists, i_script,
                   success_count, started, written, script_vars>>

\* the letter that has a directory in the lexicons of the export.py model
ExportDirLetters == {<<"a">>}

\* the files of these lexicons: a complete entry, an entry whose headword is
\* null, an entry without definitions
ExportFiles ==
    {YamlFile("map", RequiredFields, <<"a">>, "str"),
     YamlFile("map", RequiredFields, <<>>, "nonstr"),
     YamlFile("map", RequiredFields \ {"definitions"}, <<"a">>, "str")}

\* a complete entry with the headword hw and the IPA transcription tr
EntryWithIpa(hw, tr) ==
    [YamlFile("map", RequiredFields, hw, "str") EXCEPT !.ipa_kind = "str", !.ipa = tr]

\* the files of the lexicons of the ordering model: two entries with the
\* headword 'aha', one of them with a stress on its second vowel, and an
\* entry 'ah' that sorts before them
OrderFiles ==
    {EntryWithIpa(<<"a", "h", "a">>, <<"a", "h", "P", "a">>),
     YamlFile("map", RequiredFields, <<"a", "h", "a">>, "str"),
     YamlFile("map", RequiredFields, <<"a", "h">>, "str")}

InitExport ==
    /\ InitLoaded
    /\ InitStressIdle
    /\ InitSortIdle
    /\ InitValidateIdle
    /\ InitToolsIdle
    /\ InitScriptIdle
    /\ lexicon \in Lexicons(ExportDirLetters, ExportFiles)
    /\ script_exists \in [1..Len(ExportScripts) -> BOOLEAN]
    /\ epc = "loop"
    /\ i_script = 0
    /\ success_count = 0
    /\ export_status = -1
    /\ started = <<>>
    /\ written = <<>>

NextExport ==
    \/ ExpNextScript
    \/ LoadLetter
    \/ LoadFile
    \/ LoadDirDone
    \/ LoadReturn
    \/ WebLetter
    \/ ArchiveLetter
    \/ CsvLetter
    \/ ScriptWrite
    \/ ExpScriptEnd
    \/ ExpExit

SpecExport == InitExport /\ [][NextExport]_vars

\* export.py started with its three scripts in place
InitOrder ==
    /\ InitLoaded
    /\ InitStressIdle
    /\ InitSortIdle
    /\ InitValidateIdle
    /\ InitToolsIdle
    /\ InitScriptIdle
    /\ lexicon \in Lexicons(DirLetters, OrderFiles)
    /\ script_exists = [k \in 1..Len(ExportScripts) |-> TRUE]
    /\ epc = "loop"
    /\ i_script = 0
    /\ success_count = 0
    /\ export_status = -1
    /\ started = <<>>
    /\ written = <<>>

SpecOrder == InitOrder /\ [][NextExport]_vars

TypeOK ==
    /\ pc \in {"idle", "call", "predict", "place", "done", "raised"}
    /\ spc \in {"idle", "tokenize", "raised"}
    /\ vpc \in {"idle", "scan", "check", "main", "exited"}
    /\ xpc \in {"idle", "load_letter", "load_file", "process", "exited"}
    /\ epc \in {"idle", "loop", "exited"}
    /\ total_entries \in Nat
    /\ skipped_entries \in Nat

(* --------------------- vocabulary of the properties -------------------- *)

Separators == {" ", "-"}

MarkerSymbols == {"P", "S", "'"}

\* the IPA symbols that are keys of the vowel map
VowelSymbols == {sym[1] : sym \in {x \in DOMAIN vowels : Len(x) = 1}}

\* the vowel graphemes of the vowel map
VowelGraphemes == {vowels[sym] : sym \in DOMAIN vowels}

\* positions (1-based) of the characters of s that belong to the set C
PositionsIn(s, C) == {k \in 1..Len(s) : s[k] \in C}

\* positions ix and j of s lie in the same space/hyphen-delimited segment
SameSegment(s, ix, j) == \A k \in ix..j : s[k] \notin Separators

\* the k-th smallest element of a finite set of integers
Kth(S, k) == CHOOSE x \in S : Cardinality({y \in S : y <= x}) = k

\* s without the characters at the positions in P
RECURSIVE DropPositions(_, _, _)
DropPositions(s, P, k) ==
    IF k > Len(s) THEN <<>>
    ELSE (IF k \in P THEN <<>> ELSE <<s[k]>>) \o DropPositions(s, P, k + 1)

EntryHasIpaText == entry.ipa_kind = "str" /\ entry.ipa # <<>>

Returned == pc = "done"

\* the function MarkStress gives what the steps of mark_stress return
MarkStressAgrees == Returned => result = MarkStress(entry, vowels)

(* ------------------------------- C1 ------------------------------------ *)

\* C1: for an entry whose 'ipa' field is absent or empty, mark_stress
\* returns the entry's headword unchanged.
C1_NoIpaPassthrough ==
    (~EntryHasIpaText /\ pc # "call") => (Returned /\ result = entry.headword)

C1_Witness ==
    /\ Returned
    /\ entry.ipa_kind = "absent"
    /\ Len(entry.headword) = MaxHwLen
    /\ result = entry.headword

(* ------------------------------- C2 ------------------------------------ *)

\* exactly one vowel symbol, at most one stress marker in each segment
C2_Premise ==
    /\ EntryHasIpaText
    /\ Cardinality(PositionsIn(entry.ipa, VowelSymbols)) = 1
    /\ \A ix, j \in PositionsIn(entry.ipa, MarkerSymbols) :
           ix < j => ~SameSegment(entry.ipa, ix, j)

\* C2: for an IPA string with exactly one vowel symbol and at most one
\* marker per segment, the predictability pass removes every marker; the
\* placement pass is never entered and the headword is returned unchanged.
C2_SingleVowelUnmarked ==
    (pc \in {"place", "raised", "done"} /\ C2_Premise) =>
        /\ pc \notin {"place", "raised"}
        /\ Returned => (result = entry.headword /\ ~Contains(ipa, MARKER))

C2_Witness ==
    /\ Returned
    /\ C2_Premise
    /\ Cardinality(PositionsIn(entry.ipa, MarkerSymbols)) >= 2
    /\ entry.headword # <<>>
    /\ result = entry.headword

(* ------------------------------- C3 ------------------------------------ *)

\* the IPA vowels of s, left to right
IpaVowelSeq(s) == SelectSeq(s, LAMBDA c : c \in VowelSymbols)

\* the characters of h that are single-character vowel graphemes
HwVowelChars(h) == SelectSeq(h, LAMBDA c : <<c>> \in VowelGraphemes)

\* single segment, at least two vowels, exactly one marker, a vowel after
\* the marker, single-character graphemes, headword vowels = IPA vowels
C3_Premise ==
    /\ EntryHasIpaText
    /\ PositionsIn(entry.ipa, Separators) = {}
    /\ Cardinality(PositionsIn(entry.ipa, VowelSymbols)) >= 2
    /\ Cardinality(PositionsIn(entry.ipa, MarkerSymbols)) = 1
    /\ \E v \in PositionsIn(entry.ipa, VowelSymbols) :
           \A m \in PositionsIn(entry.ipa, MarkerSymbols) : m < v
    /\ \A v \in PositionsIn(entry.ipa, VowelSymbols) :
           Len(vowels[<<entry.ipa[v]>>]) = 1
    /\ HwVowelChars(entry.headword)
         = [k \in 1..Len(IpaVowelSeq(entry.ipa)) |->
                vowels[<<IpaVowelSeq(entry.ipa)[k]>>][1]]

\* the number k of the vowel the marker stands before
C3_K ==
    LET m == CHOOSE m \in PositionsIn(entry.ipa, MarkerSymbols) : TRUE
    IN Cardinality({v \in PositionsIn(entry.ipa, VowelSymbols) : v < m}) + 1

\* the headword with one U+0301 right after its k-th vowel character
C3_Expected ==
    LET p == Kth(PositionsIn(entry.headword, {g[1] : g \in {x \in VowelGraphemes : Len(x) = 1}}), C3_K)
    IN SubSeq(entry.headword, 1, p) \o <<ACUTE>>
         \o SubSeq(entry.headword, p + 1, Len(entry.headword))

\* C3: single-segment IPA, two or more vowels, one marker before the k-th
\* vowel, headword vowels matching the IPA vowels: the result is the
\* headword with exactly one U+0301, right after its k-th vowel character.
C3_MarkAfterKthVowel ==
    (Returned /\ C3_Premise) => result = C3_Expected

C3_Witness ==
    /\ Returned
    /\ C3_Premise
    /\ C3_K = 2
    /\ Len(entry.headword) = MaxHwLen
    /\ result = C3_Expected
    /\ result[Len(result)] # ACUTE

(* ------------------------------- C4 ------------------------------------ *)

\* the placement loop is at a vowel whose grapheme does not occur in the
\* working headword at any index after the previous match position
C4_LookupFails ==
    /\ pc = "place"
    /\ i_for < Len(ipa)
    /\ At(ipa, i_for) \in VowelSymbols
    /\ \A k \in (i_vowel + 1)..(Len(headword) - 1) :
           ~StartsWith(Suffix(headword, k), vowels[<<At(ipa, i_for)>>])

\* C4: when the grapheme of an IPA vowel cannot be found after the previous
\* match position, mark_stress returns at once, and returns the entry's
\* original headword without the marks inserted so far.
C4_AbortReturnsOriginal ==
    [][C4_LookupFails => (pc' = "done" /\ result' = entry.headword)]_vars

C4_Witness ==
    /\ Returned
    /\ i_for < Len(ipa)
    /\ Contains(headword, ACUTE)
    /\ ~Contains(entry.headword, ACUTE)
    /\ result = entry.headword

(* ------------------------------- C5 ------------------------------------ *)

\* position m of s holds a marker that no vowel follows inside its segment
StrayMarker(s, m) ==
    /\ s[m] \in MarkerSymbols
    /\ \A v \in m..Len(s) : s[v] \in VowelSymbols => ~SameSegment(s, m, v)

\* s has an empty segment: it starts or ends with a separator, or has two
\* separators in a row
EmptySegment(s) ==
    /\ s # <<>>
    /\ \/ s[1] \in Separators
       \/ s[Len(s)] \in Separators
       \/ \E k \in 1..(Len(s) - 1) : s[k] \in Separators /\ s[k + 1] \in Separators

\* malformed IPA: two markers in one segment, a stray marker or an empty
\* segment
Malformed(s) ==
    \/ \E a, b \in PositionsIn(s, MarkerSymbols) : a < b /\ SameSegment(s, a, b)
    \/ \E m \in 1..Len(s) : StrayMarker(s, m)
    \/ EmptySegment(s)

\* C5: mark_stress never raises, and for a malformed IPA value it returns
\* the unmarked headword.
C5_MalformedDegrades ==
    /\ pc # "raised"
    /\ (Returned /\ EntryHasIpaText /\ Malformed(entry.ipa)) => result = entry.headword

(* ------------------------------- C6 ------------------------------------ *)

\* r is h with U+0301 inserted at the positions P of r
InsertedAt(r, h, P) ==
    /\ \A p \in P : r[p] = ACUTE
    /\ DropPositions(r, P, 1) = h

\* the position in h of the character that stands before position p of r
HwPosBefore(p, P) == (p - 1) - Cardinality({q \in P : q < p})

\* C6 as claimed: the result is the headword plus inserted U+0301, each one
\* right after a headword character that is itself a vowel grapheme.
C6_MarksFollowVowelGrapheme ==
    Returned =>
        \E P \in SUBSET PositionsIn(result, {ACUTE}) :
            /\ InsertedAt(result, entry.headword, P)
            /\ \A p \in P :
                 /\ HwPosBefore(p, P) >= 1
                 /\ <<entry.headword[HwPosBefore(p, P)]>> \in VowelGraphemes

\* C6 as amended: the result is the headword plus inserted U+0301, each one
\* right after the first character of an occurrence in the headword of a
\* vowel grapheme (the vowel character itself when the grapheme has one
\* character).
C6_MarksFollowGraphemeStart ==
    Returned =>
        \E P \in SUBSET PositionsIn(result, {ACUTE}) :
            /\ InsertedAt(result, entry.headword, P)
            /\ \A p \in P :
                 /\ HwPosBefore(p, P) >= 1
                 /\ \E g \in VowelGraphemes :
                        StartsWith(Suffix(entry.headword, HwPosBefore(p, P) - 1), g)

C6_Witness ==
    /\ Returned
    /\ Len(result) = Len(entry.headword) + 2
    /\ Contains(entry.headword, "e")
    /\ Contains(entry.headword, "a")

(* ------------------------------- C7 ------------------------------------ *)

\* C7: the sort key of the output of mark_stress equals the sort key of the
\* original headword.
C7_StressKeepsSortKey ==
    Returned =>
        SortingKey([headword |-> result], alphabet, alphabet_tokens)
          = SortingKey([headword |-> entry.headword], alphabet, alphabet_tokens)

C7_Witness ==
    /\ Returned
    /\ result # entry.headword
    /\ Contains(entry.headword, "h")
    /\ Len(SortingKey([headword |-> result], alphabet, alphabet_tokens)) >= 2

(* --------------------- vocabulary of the sort claims ------------------- *)

\* the graphemes of the inventory: '-', ' ' and those of the alphabet table
KnownGraphemes == {<<"-">>, <<" ">>} \cup {table[k].grapheme : k \in 1..Len(table)}

\* rank as the specification declares it: '-' is 0, ' ' is 1 and the grapheme
\* at 0-based index j of the alphabet is j + 2
DeclaredRank(g) ==
    IF g = <<"-">> THEN 0
    ELSE IF g = <<" ">> THEN 1
    ELSE (CHOOSE k \in 1..Len(table) : table[k].grapheme = g) + 1

AllKnown(ts) == \A k \in 1..Len(ts) : ts[k] \in KnownGraphemes

\* the grapheme sequence t1 precedes t2 under the declared rank, a proper
\* prefix coming first
GraphemesPrecede(t1, t2) ==
    \/ /\ Len(t1) < Len(t2)
       /\ \A m \in 1..Len(t1) : t1[m] = t2[m]
    \/ \E d \in 1..Len(t1) :
         /\ d <= Len(t2)
         /\ \A m \in 1..(d - 1) : t1[m] = t2[m]
         /\ DeclaredRank(t1[d]) < DeclaredRank(t2[d])

BothKeyed == n_keyed = 2

Orders == {<<1, 2>>, <<2, 1>>}

(* ------------------------------- C8 ------------------------------------ *)

\* C8: for two words made of known graphemes, each key is the list of the
\* declared ranks of the word's graphemes, key(w1) < key(w2) exactly when the
\* graphemes of w1 precede those of w2 under the declared rank, and
\* identical headwords give identical keys.
C8_KeysFollowAlphabet ==
    BothKeyed =>
        \A o \in Orders :
            /\ (AllKnown(token_lists[o[1]]) /\ AllKnown(token_lists[o[2]])) =>
                 /\ keys[o[1]] = [k \in 1..Len(token_lists[o[1]]) |->
                                     DeclaredRank(token_lists[o[1]][k])]
                 /\ ListLess(keys[o[1]], keys[o[2]])
                      <=> GraphemesPrecede(token_lists[o[1]], token_lists[o[2]])
            /\ pair[o[1]].headword = pair[o[2]].headword => keys[o[1]] = keys[o[2]]

C8_Witness ==
    /\ BothKeyed
    /\ AllKnown(token_lists[1])
    /\ AllKnown(token_lists[2])
    /\ Len(token_lists[1]) = 2
    /\ Len(token_lists[1][1]) = 2
    /\ token_lists[2] = << <<"k">>, <<"a">> >>
    /\ ListLess(keys[2], keys[1])
    /\ ~ListLess(keys[1], keys[2])

(* ------------------------------- C9 ------------------------------------ *)

\* the lower-case, unaccented word whose key number x is
PlainWord(x) == StripAccents(Lower(pair[x].headword))

\* g is the grapheme the word w begins with: a declared grapheme that is a
\* prefix of w and is not extended by a longer declared grapheme prefix of w
BeginsWith(w, g) ==
    /\ g \in KnownGraphemes
    /\ StartsWith(w, g)
    /\ \A g2 \in KnownGraphemes : StartsWith(w, g2) => Len(g2) <= Len(g)

\* C9: a word that begins with a declared digraph or trigraph has the rank
\* of that grapheme as the first element of its key, not the rank of its
\* first character alone.
C9_DigraphRankFirst ==
    \A x \in 1..n_keyed :
        \A g \in KnownGraphemes :
            (Len(g) >= 2 /\ BeginsWith(PlainWord(x), g)) =>
                /\ keys[x] # <<>>
                /\ keys[x][1] = DeclaredRank(g)
                /\ keys[x][1] # RankOf(<<PlainWord(x)[1]>>, alphabet)

C9_Witness ==
    /\ BothKeyed
    /\ BeginsWith(PlainWord(1), <<"k", "h", "w">>)
    /\ BeginsWith(PlainWord(2), <<"k", "h">>)
    /\ keys[1][1] > keys[2][1]

(* ------------------------------- C10 ----------------------------------- *)

\* C10: a token outside the inventory gets the rank 999, larger than the
\* rank of every grapheme of the inventory, so of two words that first
\* differ where one has an unknown token and the other a known one, the
\* word with the unknown token sorts after the other.
C10_UnknownSortsLast ==
    BothKeyed =>
        /\ \A x \in 1..2 : \A k \in 1..Len(keys[x]) :
               IF token_lists[x][k] \in KnownGraphemes
               THEN keys[x][k] < 999
               ELSE keys[x][k] = 999 /\ \A g \in KnownGraphemes : RankOf(g, alphabet) < keys[x][k]
        /\ \A o \in Orders :
               \A d \in 1..Len(token_lists[o[1]]) :
                   ( /\ d <= Len(token_lists[o[2]])
                     /\ \A m \in 1..(d - 1) : token_lists[o[1]][m] = token_lists[o[2]][m]
                     /\ token_lists[o[1]][d] \notin KnownGraphemes
                     /\ token_lists[o[2]][d] \in KnownGraphemes )
                   => ListLess(keys[o[2]], keys[o[1]])

C10_Witness ==
    /\ BothKeyed
    /\ Len(token_lists[1]) = 2
    /\ Len(token_lists[2]) = 2
    /\ token_lists[1][1] = token_lists[2][1]
    /\ token_lists[1][2] \notin KnownGraphemes
    /\ token_lists[2][2] \in KnownGraphemes
    /\ ListLess(keys[2], keys[1])

(* ------------------------------- C11 ----------------------------------- *)

\* C11: sorting_key never raises; for an entry whose headword is missing or
\* is not a string it returns the key [0].
C11_FailureKeyNeverRaises ==
    /\ spc # "raised"
    /\ \A x \in 1..n_keyed : pair[x].hw_kind # "str" => keys[x] = <<0>>

(* ------------------------------- C17 ----------------------------------- *)

\* the number of vowel symbols in the segment of s that holds position p
SegmentVowels(s, p) ==
    Cardinality({v \in PositionsIn(s, VowelSymbols) :
                    IF v <= p THEN SameSegment(s, v, p) ELSE SameSegment(s, p, v)})

\* the predictability loop is over
PassOver == (pc = "predict" /\ ~(i_char < Len(ipa))) \/ pc = "place"

\* C17: after the predictability pass no segment of the IPA string with at
\* most one vowel symbol holds a stress marker.
C17_SmallSegmentsUnmarked ==
    PassOver => \A m \in PositionsIn(ipa, {MARKER}) : SegmentVowels(ipa, m) >= 2

(* ------------------------------- C18 ----------------------------------- *)

\* C18: a combining mark is inserted only for an IPA vowel of a segment with
\* two or more vowels.
C18_NoMarkOnSingleVowelSegment ==
    [][(pc = "place" /\ headword' # headword) => SegmentVowels(ipa, i_for + 1) >= 2]_vars

(* ------------------------------- C19 ----------------------------------- *)

\* the step deletes the marker at position p (1-based) of ipa
DeletesMarker(p) ==
    /\ ipa[p] = MARKER
    /\ ipa' = DropPositions(ipa, {p}, 1)

\* the boundary the scan is at: a separator, or the last character
ScanAtBoundary == ipa[i_char + 1] \in Separators \/ i_char + 1 = Len(ipa)

\* C19: a step of the predictability loop leaves the IPA string alone or
\* deletes one marker; it deletes only at a segment boundary, only a marker
\* of the segment that ends there, only when that segment has at most one
\* vowel, and the scan then stands right behind the boundary; after the pass
\* the non-marker characters are those of the normalised input, in order.
C19_OnlyPredictableMarkersDeleted ==
    /\ [][(pc = "predict" /\ ipa' # ipa) =>
            /\ ScanAtBoundary
            /\ \E p \in 1..(i_char + 1) :
                 /\ DeletesMarker(p)
                 /\ \A k \in p..i_char : ipa[k] \notin Separators
                 /\ SegmentVowels(ipa, p) <= 1
            /\ i_char' = i_char
            /\ i_word' = i_char']_vars
    /\ [](pc \in {"predict", "place"} =>
            RemoveChar(ipa, MARKER) = RemoveChar(NormalizeIpa(entry.ipa), MARKER))

\* two markers deleted at two boundaries
C19_Witness ==
    /\ PassOver
    /\ Len(ipa) = Len(entry.ipa) - 2
    /\ PositionsIn(ipa, Separators) # {}
    /\ PositionsIn(ipa, VowelSymbols) # {}

(* ------------------------------- C20 ----------------------------------- *)

\* a marker stands before position p (1-based) of s with no vowel symbol
\* between it and p
MarkerSincePreviousVowel(s, p) ==
    \E m \in 1..(p - 1) :
        /\ s[m] = MARKER
        /\ \A k \in (m + 1)..(p - 1) : s[k] \notin VowelSymbols

\* h1 is h with one U+0301 inserted
OneMarkInserted(h, h1) ==
    \E q \in 1..Len(h1) : h1[q] = ACUTE /\ DropPositions(h1, {q}, 1) = h

\* C20: a step of the placement loop inserts one combining mark when its
\* character is a vowel that is found and a marker stands between the
\* previous vowel (or the start) and it, and leaves the headword alone in
\* every other case: for a vowel without such a marker, for a marker, for
\* any other character, and when the vowel is not found.
C20_FlagSetByMarkerUsedByNextVowel ==
    [][(pc = "place" /\ i_for < Len(ipa)) =>
          IF /\ ipa[i_for + 1] \in VowelSymbols
             /\ pc' = "place"
             /\ MarkerSincePreviousVowel(ipa, i_for + 1)
          THEN OneMarkInserted(headword, headword')
          ELSE headword' = headword]_vars

\* two markers before the first of two vowels, one mark in the result
C20_Witness ==
    /\ Returned
    /\ Cardinality(PositionsIn(ipa, VowelSymbols)) = 2
    /\ Contains(ipa, MARKER)
    /\ i_for = Len(ipa)
    /\ \E k \in 1..(Len(ipa) - 1) : ipa[k] = MARKER /\ ipa[k + 1] = MARKER
    /\ ~Contains(entry.headword, ACUTE)
    /\ Cardinality(PositionsIn(result, {ACUTE})) = 1

(* ---------------------------- C12, C13 --------------------------------- *)

\* the files (positions in lexicon_files) whose entry has the id k
FilesWithId(k) ==
    {f \in 1..Len(lexicon_files) :
        lexicon_files[f].kind = "entry" /\ lexicon_files[f].id = k}

\* the ids that occur in two or more files
CollidingIds == {k \in Ids : Cardinality(FilesWithId(k)) >= 2}

C13_AllCollisionsReported ==
    /\ reported # <<>> => i_file = Len(lexicon_files)
    /\ vpc \in {"main", "exited"} =>
         /\ \A k \in CollidingIds :
                \E r \in 1..Len(reported) :
                    /\ reported[r].id = k
                    /\ {reported[r].files[j] : j \in 1..Len(reported[r].files)} = FilesWithId(k)
                    /\ Len(reported[r].files) = Cardinality(FilesWithId(k))
         /\ \A r \in 1..Len(reported) : reported[r].id \in CollidingIds
         /\ Len(reported) = Cardinality(CollidingIds)

C13_Witness ==
    /\ vpc = "exited"
    /\ Len(reported) = 2
    /\ Len(lexicon_files) = MaxFiles

(* ------------------------------- C14 ----------------------------------- *)

\* the files of the letter directory number ix of the alphabet, when the
\* loader has gone through the first nn of them
SeenFiles(ix, nn) == {<<ix, y>> : y \in 1..nn}

\* how many files of the directory of letter number ix the loader has gone
\* through
GoneThrough(ix) ==
    IF xpc = "process" \/ ix <= i_letter THEN Len(lexicon[alphabet[ix]])
    ELSE IF xpc = "load_file" /\ ix = i_letter + 1 THEN i_yaml
    ELSE 0

\* the files (letter number, position in the sorted directory) the loader
\* has gone through
Processed ==
    UNION {SeenFiles(ix, GoneThrough(ix)) :
             ix \in {k \in 1..Len(alphabet) : DirExists(lexicon, alphabet[k])}}

\* a file with all the required fields, read without an error
Complete(f) == f.load = "map" /\ RequiredFields \subseteq f.keys

FileAt(pos) == lexicon[alphabet[pos[1]]][pos[2]]

\* the entries of the result, all letters, in order
RECURSIVE Flatten(_)
Flatten(d) == IF d = <<>> THEN <<>> ELSE Head(d).entries \o Flatten(Tail(d))

\* the complete files of a directory, in order
CompleteOf(fs) == SelectSeq(fs, Complete)

\* C14: at every point of load_lexicon_entries, each file gone through is
\* counted once: the skipped count is the number of files gone through that
\* lack a required field or failed to load, the total is the number of the
\* others; at the return every file of every existing letter directory has
\* been gone through and the result holds exactly the complete files.
C14_SkipAndContinue ==
    xpc \in {"load_letter", "load_file", "process"} /\ script = "none" =>
      /\ skipped_entries = Cardinality({pos \in Processed : ~Complete(FileAt(pos))})
      /\ total_entries = Cardinality({pos \in Processed : Complete(FileAt(pos))})
      /\ Len(Flatten(entries_by_letter)) = total_entries
      /\ \A g \in 1..Len(entries_by_letter) :
            \A e \in 1..Len(entries_by_letter[g].entries) :
                Complete(entries_by_letter[g].entries[e])
      /\ xpc = "process" =>
            /\ total_entries + skipped_entries
                 = Cardinality(UNION {{<<l, y>> : y \in 1..Len(lexicon[l])} :
                                        l \in DOMAIN lexicon})
            /\ \A l \in DOMAIN lexicon :
                  /\ InDict(entries_by_letter, l)
                  /\ EntriesOf(entries_by_letter, l) = CompleteOf(lexicon[l])

\* an incomplete file in the first directory and in the second, each
\* followed by a complete file that is loaded
C14_Witness ==
    /\ xpc = "process"
    /\ script = "none"
    /\ skipped_entries = 2
    /\ total_entries = 2
    /\ \A l \in DirLetters :
          /\ DirExists(lexicon, l)
          /\ ~Complete(lexicon[l][1])
          /\ Complete(lexicon[l][2])
    /\ \E l \in DirLetters : lexicon[l][1].load = "map"

(* ------------------------------- C16 ----------------------------------- *)

\* the positions of the separator rows of the CSV written
SeparatorPositions == {r \in 1..Len(output) : output[r].letter # <<>>}

\* the position of a letter in the alphabet
AlphabetIndex(l) == CHOOSE k \in 1..Len(alphabet) : alphabet[k] = l

CsvWritten == script = "to_csv.py" /\ xpc = "exited" /\ script_status = 0

\* C16: in the CSV written, the rows with a letter are separator rows: there
\* is one for each letter that has a directory, they come in alphabet order,
\* all their other columns are empty, and each is followed by exactly the
\* rows of the entries loaded for its letter, whose letter column is empty.
C16_LetterOnlyOnSeparators ==
    CsvWritten =>
      /\ \A r \in SeparatorPositions : output[r] = SeparatorRow(output[r].letter)
      /\ \A l \in DOMAIN lexicon :
            Cardinality({r \in SeparatorPositions : output[r].letter = l}) = 1
      /\ \A r \in SeparatorPositions : output[r].letter \in DOMAIN lexicon
      /\ \A r1, r2 \in SeparatorPositions :
            r1 < r2 => AlphabetIndex(output[r1].letter) < AlphabetIndex(output[r2].letter)
      /\ \A r \in SeparatorPositions :
            LET nn == Len(EntriesOf(entries_by_letter, output[r].letter))
            IN /\ r + nn <= Len(output)
               /\ \A q \in (r + 1)..(r + nn) : output[q].letter = <<>>
               /\ r + nn < Len(output) => (r + nn + 1) \in SeparatorPositions
      /\ output # <<>> => 1 \in SeparatorPositions

\* two letters with a directory, the first with two entries, the second
\* with one
C16_Witness ==
    /\ CsvWritten
    /\ Len(output) = 5
    /\ Cardinality(SeparatorPositions) = 2
    /\ output[4].letter = <<"k", "h">>
    /\ output[2].headword # output[3].headword

(* ------------------------------- C15 ----------------------------------- *)

\* some file of the lexicon is skipped for a missing required field
SomeSkippedForFields ==
    \E l \in DOMAIN lexicon : \E y \in 1..Len(lexicon[l]) :
        lexicon[l][y].load = "map" /\ ~(RequiredFields \subseteq lexicon[l][y].keys)

\* C15: an export script that has skipped an entry ends with a non-zero
\* exit status, and so does export.py when a file of the lexicon is skipped
\* for a missing required field.
C15_SkippedGivesNonZeroExit ==
    /\ xpc = "exited" /\ skipped_entries > 0 => script_status # 0
    /\ epc = "exited" /\ SomeSkippedForFields => export_status # 0

(* ------------------------------- C21 ----------------------------------- *)

\* the graphemes of the inventory that the rest of the word starts with
MatchingHere == {g \in KnownGraphemes : StartsWith(Suffix(word, i), g)}

\* an iteration of the while loop of tokenize is about to run
InTokenizeLoop == spc = "tokenize" /\ i < Len(word)

\* C21: when some grapheme of the inventory is a prefix of the rest of the
\* word, the token emitted is such a grapheme and no grapheme of the
\* inventory that is a prefix of the rest is longer.
C21_LongestGraphemeEmitted ==
    [][(InTokenizeLoop /\ MatchingHere # {}) =>
          \E g \in MatchingHere :
              /\ tokens' = Append(tokens, g)
              /\ \A g2 \in MatchingHere : Len(g2) <= Len(g)]_vars

\* the trigraph is taken where the digraph and the single letter match too
C21_Witness ==
    /\ spc = "tokenize"
    /\ word = <<"k", "h", "w">>
    /\ tokens = << <<"k", "h", "w">> >>
    /\ token_lists = <<>>

(* ------------------------------- C22 ----------------------------------- *)

RECURSIVE Concat(_)
\* ''.join(ts)
Concat(ts) == IF ts = <<>> THEN <<>> ELSE Head(ts) \o Concat(Tail(ts))

\* C22: tokenize does not fail: the tokens emitted so far always spell the
\* part of the lowercased word already scanned, a character that starts no
\* grapheme of the inventory is emitted alone, and the tokens returned spell
\* the whole lowercased word.
C22_TokensSpellTheWord ==
    /\ [](spc = "tokenize" => (i <= Len(word) /\ Concat(tokens) = Prefix(word, i)))
    /\ [][(InTokenizeLoop /\ MatchingHere = {}) =>
            tokens' = Append(tokens, <<word[i + 1]>>)]_vars
    /\ [](\A x \in 1..n_keyed :
            Concat(token_lists[x]) = Lower(StripAccents(Lower(pair[x].headword))))

\* a word with a character outside the inventory between two known ones
C22_Witness ==
    /\ n_keyed >= 1
    /\ Len(pair[1].headword) = 3
    /\ token_lists[1] = << <<"k">>, <<"z">>, <<"a">> >>

(* ------------------------------- C29 ----------------------------------- *)

\* the predictability loop is left
PredictabilityLoopOver == pc \in {"place", "done", "raised"}

\* the tokenize loop is left and the key is returned
TokenizeLoopOver == spc = "idle" /\ n_keyed = 1

\* C29: each iteration of the predictability loop advances the scan index by
\* one or shortens the IPA string by one character with the index unchanged,
\* the index never passes the end; each iteration of tokenize advances its
\* index by at least one over an unchanged word; and both loops are left.
C29_LoopsTerminate ==
    /\ [][(pc = "predict" /\ i_char < Len(ipa)) =>
            \/ i_char' = i_char + 1 /\ ipa' = ipa
            \/ i_char' = i_char /\ Len(ipa') = Len(ipa) - 1]_vars
    /\ [](pc = "predict" => (0 <= i_char /\ i_char <= Len(ipa)))
    /\ [][InTokenizeLoop => (i' >= i + 1 /\ i' <= Len(word) /\ word' = word)]_vars
    /\ <>PredictabilityLoopOver
    /\ <>TokenizeLoopOver

\* a marker was deleted on the way, and a two-character grapheme was taken
\* in one iteration of tokenize
C29_Witness ==
    /\ TokenizeLoopOver
    /\ Len(ipa) < Len(entry.ipa)
    /\ Len(tokens) < Len(word)

(* ------------------------------- C25 ----------------------------------- *)

\* load_alphabet has returned
AlphabetLoaded == alphabet_tokens # <<>>

\* the rows of the table that define a vowel
VowelRows == {k \in 1..Len(table) : table[k].type = "vowel"}

\* C25: the keys of the vowel map are the IPA symbols of the vowel rows, one
\* key for each, and each key maps to the grapheme of the last vowel row
\* that has it.
C25_LastVowelWins ==
    AlphabetLoaded =>
      /\ DOMAIN vowels = {table[k].ipa : k \in VowelRows}
      /\ \A k \in VowelRows :
            (\A m \in VowelRows : m > k => table[m].ipa # table[k].ipa) =>
                vowels[table[k].ipa] = table[k].grapheme

\* two vowel graphemes with the same IPA symbol
C25_Witness ==
    /\ AlphabetLoaded
    /\ \E k, m \in VowelRows :
          /\ k < m
          /\ table[k].ipa = table[m].ipa
          /\ vowels[table[k].ipa] = table[m].grapheme
          /\ vowels[table[k].ipa] # table[k].grapheme


(* ------------------------------- C26 ----------------------------------- *)

\* the export scripts that exist, in the order of the list of export.py
ExistingScripts ==
    LET idx == SelectSeq([k \in 1..Len(ExportScripts) |-> k], LAMBDA k : script_exists[k])
    IN [k \in 1..Len(idx) |-> ExportScripts[idx[k]]]

\* the scripts that have written their output file and ended with status 0
Succeeded == {written[k].script : k \in 1..Len(written)}

ExportOver == epc = "exited"

\* C26: the scripts are started in the order web JSON, archive JSON, CSV,
\* one at a time; when export.py ends, every script that exists has been
\* started, whatever happened to the scripts before it; and the exit status
\* is 1 exactly when fewer than three scripts succeeded, 0 otherwise.
C26_AllScriptsRunInOrder ==
    /\ ExportScripts = <<"to_json_web.py", "to_json_archive.py", "to_csv.py">>
    /\ epc # "idle" =>
         /\ started = Prefix(ExistingScripts, Len(started))
         /\ xpc # "idle" => (started # <<>> /\ script = started[Len(started)])
    /\ ExportOver =>
         /\ started = ExistingScripts
         /\ export_status = 1 <=> Cardinality(Succeeded) < 3
         /\ export_status = 0 <=> Cardinality(Succeeded) = 3

\* the first script is missing and the second fails; the third is run
C26_Witness ==
    /\ ExportOver
    /\ started = <<"to_json_archive.py", "to_csv.py">>
    /\ written = <<>>
    /\ export_status = 1


(* ------------------------ rename-ejectives.py -------------------------- *)

MaxTreeDepth == 2

\* REPLACEMENTS: the six consonants are written p, t, c, C, k, q, the soft
\* sign b and the palochka I
REPLACEMENTS ==
    << << <<"p", "b">>, <<"p", "I">> >>,
       << <<"t", "b">>, <<"t", "I">> >>,
       << <<"c", "b">>, <<"c", "I">> >>,
       << <<"C", "b">>, <<"C", "I">> >>,
       << <<"k", "b">>, <<"k", "I">> >>,
       << <<"q", "b">>, <<"q", "I">> >> >>

\* src in s, for a string src that is not empty
Occurs(src, s) == Find(s, src, 0) # -1

RECURSIVE StrReplace(_, _, _)
\* s.replace(src, dst), for a string src that is not empty
StrReplace(s, src, dst) ==
    IF Len(s) < Len(src) THEN s
    ELSE IF SubSeq(s, 1, Len(src)) = src
    THEN dst \o StrReplace(SubSeq(s, Len(src) + 1, Len(s)), src, dst)
    ELSE <<Head(s)>> \o StrReplace(Tail(s), src, dst)

RECURSIVE ReplaceEach(_, _, _)
\* for src, dst in pairs[k:]: s = s.replace(src, dst), k counted from 1
ReplaceEach(s, pairs, k) ==
    IF k > Len(pairs) THEN s
    ELSE ReplaceEach(StrReplace(s, pairs[k][1], pairs[k][2]), pairs, k + 1)

\* apply_replacements
ApplyReplacements(name) == ReplaceEach(name, REPLACEMENTS, 1)

\* needs_rename
NeedsRename(name) == \E k \in 1..Len(REPLACEMENTS) : Occurs(REPLACEMENTS[k][1], name)

\* the names of the files and directories of the model
TreeNames == {<<"x">>, <<"p", "b">>}

\* the paths below the lexicon directory, as sequences of names
TreePaths == SeqsUpTo(TreeNames, MaxTreeDepth) \ {<<>>}

\* os.path.dirname, for a path below the lexicon directory
Dirname(p) == SubSeq(p, 1, Len(p) - 1)

\* the last component of the path of the lexicon directory
RootName == <<"l", "e", "x", "i", "c", "o", "n">>

\* os.path.basename
Basename(p) == IF p = <<>> THEN RootName ELSE p[Len(p)]

\* the names of the entries of the directory p among the paths P
NamesIn(P, p) == {q[Len(q)] : q \in {r \in P : Len(r) = Len(p) + 1 /\ Dirname(r) = p}}

\* the orders in which os.scandir can yield the names S
Listings(S) ==
    {sq \in [1..Cardinality(S) -> S] : \A a, b \in 1..Cardinality(S) : a # b => sq[a] # sq[b]}

\* os.walk enters the directory p: its entries are listed, in some order
Frames(p) ==
    {[path |-> p, dirnames |-> ds, walked |-> 0, filenames |-> fs] :
        ds \in Listings(NamesIn(disk_dirs, p)), fs \in Listings(NamesIn(disk_files, p))}

\* lines 31-35: the renames of the files of dirpath
FileRenames(dirpath, filenames) ==
    LET Needs(f) == NeedsRename(f)
        fs == SelectSeq(filenames, Needs)
    IN [k \in 1..Len(fs) |->
           [old |-> dirpath \o <<fs[k]>>, new |-> dirpath \o <<ApplyReplacements(fs[k])>>]]

\* lines 36-40: the rename of dirpath itself
DirRename(dirpath) ==
    IF NeedsRename(Basename(dirpath))
    THEN << [old |-> dirpath,
             new |-> Dirname(dirpath) \o <<ApplyReplacements(Basename(dirpath))>>] >>
    ELSE <<>>

\* bug: the rename of a directory is put in front of the renames collected so far
Collected_DirFirst(rs, dirpath, filenames) ==
    DirRename(dirpath) \o rs \o FileRenames(dirpath, filenames)

\* lines 31-40: the body of the loop for one triple yielded by os.walk
Collected(rs, dirpath, filenames) ==
    rs \o FileRenames(dirpath, filenames) \o DirRename(dirpath)

\* os.walk(root, topdown=False) goes into the next subdirectory of the
\* directory it is in
WalkDescend ==
    /\ rpc = "walk"
    /\ LET top == walk_stack[Len(walk_stack)]
       IN /\ top.walked < Len(top.dirnames)
          /\ \E fr \in Frames(top.path \o <<top.dirnames[top.walked + 1]>>) :
                walk_stack' = Append([walk_stack EXCEPT ![Len(walk_stack)].walked = @ + 1], fr)
    /\ UNCHANGED <<loaded, ms_vars, sk_vars, val_vars, exp_vars, sf_vars, fx_vars,
                   disk_dirs, disk_files, rpc, renames, i_rename, rename_count>>

\* os.walk yields a directory after its subdirectories, and the body of the
\* loop of line 30 runs; after the root the loop is over
WalkYield ==
    /\ rpc = "walk"
    /\ LET top == walk_stack[Len(walk_stack)]
       IN /\ top.walked = Len(top.dirnames)
          /\ renames' = Collected(renames, top.path, top.filenames)
    /\ walk_stack' = SubSeq(walk_stack, 1, Len(walk_stack) - 1)
    /\ rpc' = IF Len(walk_stack) = 1 THEN "rename" ELSE "walk"
    /\ UNCHANGED <<loaded, ms_vars, sk_vars, val_vars, exp_vars, sf_vars, fx_vars,
                   disk_dirs, disk_files, i_rename, rename_count>>

\* the path p after the rename of old to new
Moved(p, old, new) ==
    IF Len(p) >= Len(old) /\ SubSeq(p, 1, Len(old)) = old
    THEN new \o SubSeq(p, Len(old) + 1, Len(p))
    ELSE p

\* lines 42-44: os.rename(old, new) raises FileNotFoundError when old does
\* not exist, and moves old with all that is below it otherwise
RenameStep ==
    /\ rpc = "rename"
    /\ i_rename < Len(renames)
    /\ LET r == renames[i_rename + 1]
       IN IF r.old \notin disk_dirs \cup disk_files
          THEN /\ rpc' = "raised"
               /\ UNCHANGED <<disk_dirs, disk_files, i_rename>>
          ELSE /\ disk_dirs' = {Moved(p, r.old, r.new) : p \in disk_dirs}
               /\ disk_files' = {Moved(p, r.old, r.new) : p \in disk_files}
               /\ i_rename' = i_rename + 1
               /\ UNCHANGED rpc
    /\ UNCHANGED <<loaded, ms_vars, sk_vars, val_vars, exp_vars, sf_vars, fx_vars,
                   walk_stack, renames, rename_count>>

\* line 46: return len(renames)
RenameReturn ==
    /\ rpc = "rename"
    /\ i_rename = Len(renames)
    /\ rename_count' = Len(renames)
    /\ rpc' = "returned"
    /\ UNCHANGED <<loaded, ms_vars, sk_vars, val_vars, exp_vars, sf_vars, fx_vars,
                   disk_dirs, disk_files, walk_stack, renames, i_rename>>

\* rename_tree is called for a lexicon directory whose entries, at most
\* MaxTreeDepth levels deep, have the names of TreeNames
InitRename ==
    /\ InitLoaded
    /\ InitExportIdle
    /\ InitStressIdle
    /\ InitSortIdle
    /\ InitValidateIdle
    /\ InitFormsIdle
    /\ InitFixIdle
    /\ disk_dirs \in {D \in SUBSET TreePaths : \A p \in D : Dirname(p) \in D \cup {<<>>}}
    /\ disk_files \in {F \in SUBSET (TreePaths \ disk_dirs) :
                           \A p \in F : Dirname(p) \in disk_dirs \cup {<<>>}}
    /\ rpc = "walk"
    /\ walk_stack \in {<<fr>> : fr \in Frames(<<>>)}
    /\ renames = <<>>
    /\ i_rename = 0
    /\ rename_count = -1

NextRename == WalkDescend \/ WalkYield \/ RenameStep \/ RenameReturn

SpecRename == InitRename /\ [][NextRename]_vars

(* --------------------------- simplify_forms ---------------------------- *)

MaxForms == 2

RECURSIVE SplitFrom(_, _, _)
\* the words of s[k-1:], after the characters cur of a word already begun
SplitFrom(s, k, cur) ==
    LET done == IF cur = <<>> THEN <<>> ELSE <<cur>>
    IN IF k > Len(s) THEN done
       ELSE IF s[k] = " " THEN done \o SplitFrom(s, k + 1, <<>>)
       ELSE SplitFrom(s, k + 1, Append(cur, s[k]))

\* text.split(): the words between runs of whitespace
Split(text) == SplitFrom(text, 1, <<>>)

\* line 45: 'v' in tags and ' ' in headword
IsCompoundVerb(hw, tgs) == "v" \in tgs /\ Contains(hw, " ")

\* lines 49-51: the form is passed over; form.get('text', '') is '' for a
\* form without text
PassedOver(form, hw) == form.text = <<>> \/ form.text = hw

\* line 55: text.split()[-1] raises IndexError for a text of whitespace
SplitRaises(form) == Split(form.text) = <<>>

\* lines 54-61: the text appended for a form that is not passed over
SimplifiedText(form, compound) ==
    LET words == Split(form.text)
        text == IF compound THEN words[Len(words)] ELSE form.text
    IN IF form.gloss = "obl" THEN text \o <<"-">> ELSE text

\* simplify_forms(forms, headword, tags), the whole call
SimplifyForms ==
    /\ sf_pc = "call"
    /\ LET compound == IsCompoundVerb(sf_headword, sf_tags)
           Kept(form) == ~PassedOver(form, sf_headword)
           kept == SelectSeq(sf_forms, Kept)
       IN IF compound /\ \E k \in 1..Len(kept) : SplitRaises(kept[k])
          THEN /\ sf_pc' = "raised"
               /\ UNCHANGED sf_result
          ELSE /\ sf_pc' = "returned"
               /\ sf_result' = [k \in 1..Len(kept) |-> SimplifiedText(kept[k], compound)]
    /\ UNCHANGED <<loaded, ms_vars, sk_vars, val_vars, exp_vars, rn_vars, fx_vars,
                   sf_forms, sf_headword, sf_tags>>

\* the texts of the forms of the model: none, two words, one word, a blank
FormTexts == {<<>>, <<"a", " ", "b">>, <<"b">>, <<" ">>}

\* the forms of an entry: a text and a gloss
Forms == [text : FormTexts, gloss : {"obl", "pl"}]

InitForms ==
    /\ InitLoaded
    /\ InitExportIdle
    /\ InitStressIdle
    /\ InitSortIdle
    /\ InitValidateIdle
    /\ InitRenameIdle
    /\ InitFixIdle
    /\ sf_forms \in SeqsUpTo(Forms, MaxForms)
    /\ sf_headword \in {<<"a", " ", "b">>, <<"b">>}
    /\ sf_tags \in {{"v"}, {"n"}}
    /\ sf_pc = "call"
    /\ sf_result = <<>>

NextForms == SimplifyForms

SpecForms == InitForms /\ [][NextForms]_vars

(* ------------------------------ fix-ipa.py ----------------------------- *)

MaxFixLen == 4

MaxRuns == 2

\* ASPIRATE: the esh is written S and the aspiration H
ASPIRATE ==
    << << <<"t", "S">>, <<"t", "S", "H">> >>,
       << <<"t", "s">>, <<"t", "s", "H">> >>,
       << <<"p">>, <<"p", "H">> >>,
       << <<"t">>, <<"t", "H">> >>,
       << <<"k">>, <<"k", "H">> >>,
       << <<"q">>, <<"q", "H">> >> >>

\* SIMPLE: the beta is written B, the labialisation W, the tap R and the
\* tie bar T
SIMPLE ==
    << << <<"v">>, <<"B">> >>,
       << <<"o">>, <<"W", "a">> >>,
       << <<"r">>, <<"R">> >>,
       << <<"t", "T">>, <<"t">> >> >>

\* bug: an aspiration that is already there does not hold back a second one
NotAspirated_Again(after) == after \in {<<"L">>, <<"E">>}

\* line 42, negated: after is the length mark (written L), the ejective
\* mark (written E) or the aspiration
NotAspirated(after) == after \in {<<"L">>, <<"E">>, <<"H">>}

RECURSIVE AspirateFrom(_, _)
\* lines 37-52: the characters the loop appends from the position ix on
AspirateFrom(s, ix) ==
    IF ~(ix < Len(s)) THEN <<>>
    ELSE LET hits == {k \in 1..Len(ASPIRATE) : StartsWith(Suffix(s, ix), ASPIRATE[k][1])}
         IN IF hits = {}
            THEN <<At(s, ix)>> \o AspirateFrom(s, ix + 1)
            ELSE LET k == CHOOSE h \in hits : \A m \in hits : h <= m
                     src == ASPIRATE[k][1]
                     dst == ASPIRATE[k][2]
                     after == SubSeq(Suffix(s, ix + Len(src)), 1,
                                     IF ix + Len(src) < Len(s) THEN 1 ELSE 0)
                 IN (IF ~NotAspirated(after) THEN dst ELSE src)
                        \o AspirateFrom(s, ix + Len(src))

\* transform_ipa
TransformIpa(x) == AspirateFrom(ReplaceEach(x, SIMPLE, 1), 0)

\* lines 62-71: the line process_file puts into new_lines; the pattern of
\* line 63 matches an ipa line whose value is not empty
NewLine(line) ==
    IF line.key = "ipa" /\ line.value # <<>>
    THEN [line EXCEPT !.value = TransformIpa(@)]
    ELSE line

\* one run of fix-ipa.py: process_file reads the file, transforms its ipa
\* lines and writes the file when a line has changed
FixIpaRun ==
    /\ fx_runs < MaxRuns
    /\ LET new_lines == [k \in 1..Len(fx_file) |-> NewLine(fx_file[k])]
           changed == \E k \in 1..Len(fx_file) : new_lines[k] # fx_file[k]
       IN /\ fx_file' = IF changed THEN new_lines ELSE fx_file
          /\ fx_changed' = Append(fx_changed, changed)
    /\ fx_runs' = fx_runs + 1
    /\ UNCHANGED <<loaded, ms_vars, sk_vars, val_vars, exp_vars, rn_vars, sf_vars, fx_original>>

\* the characters of the IPA values of the model
FixChars == {"t", "S", "s", "p", "o", "T", "L", "H"}

\* a lexeme file with a headword line and an ipa line
InitFix ==
    /\ InitLoaded
    /\ InitExportIdle
    /\ InitStressIdle
    /\ InitSortIdle
    /\ InitValidateIdle
    /\ InitRenameIdle
    /\ InitFormsIdle
    /\ fx_original \in SeqsUpTo(FixChars, MaxFixLen)
    /\ fx_file = << [key |-> "headword", value |-> <<"t", "o">>],
                    [key |-> "ipa", value |-> fx_original] >>
    /\ fx_runs = 0
    /\ fx_changed = <<>>

NextFix == FixIpaRun

SpecFix == InitFix /\ [][NextFix]_vars

(* ------------------------------ claim C23 ------------------------------ *)

\* the position of a letter in the alphabet, 0 for a letter that is not in it
AlphabetPosition(letter) ==
    IF \E k \in 1..Len(alphabet) : alphabet[k] = letter
    THEN CHOOSE k \in 1..Len(alphabet) : alphabet[k] = letter
    ELSE 0

\* the rows of a CSV output as letter groups: a separator row opens a group,
\* the rows that follow it are its entries
RECURSIVE CsvGroups(_, _)
CsvGroups(rows, nn) ==
    IF nn = 0 THEN <<>>
    ELSE LET g == CsvGroups(rows, nn - 1)
             r == rows[nn]
         IN IF r.letter # <<>>
            THEN Append(g, [letter |-> r.letter, entries |-> <<>>])
            ELSE IF g = <<>>
            THEN << [letter |-> <<>>, entries |-> <<r>>] >>
            ELSE [g EXCEPT ![Len(g)].entries = Append(@, r)]

\* the letter groups of a written output
GroupsOf(w) ==
    IF w.script = "to_csv.py" THEN CsvGroups(w.output, Len(w.output)) ELSE w.output

\* the headword a row of an output shows, without the IPA line of a CSV cell
ShownHeadword(h) ==
    LET nl == {k \in 1..Len(h) : h[k] = NEWLINE}
    IN IF nl = {} THEN h
       ELSE SubSeq(h, 1, (CHOOSE k \in nl : \A m \in nl : k <= m) - 1)

\* sorting_key of the headword of a row of an output
RowKey(x) == SortingKey([headword |-> ShownHeadword(x.headword)], alphabet, alphabet_tokens)

\* the letter groups are in alphabet order, and the rows of a group are in
\* non-decreasing order of their keys
OutputOrdered(gs) ==
    /\ \A k \in 1..Len(gs) : AlphabetPosition(gs[k].letter) > 0
    /\ \A k \in 1..(Len(gs) - 1) :
         AlphabetPosition(gs[k].letter) < AlphabetPosition(gs[k + 1].letter)
    /\ \A k \in 1..Len(gs) : \A m \in 1..(Len(gs[k].entries) - 1) :
         ~ListLess(RowKey(gs[k].entries[m + 1]), RowKey(gs[k].entries[m]))

\* C23: in each export (web JSON, archive JSON, CSV) the letter groups follow
\* the order of the alphabet, and within each group the entries are in
\* non-decreasing order of sorting_key of their headword
C23_GroupsAndEntriesOrdered ==
    \A w \in 1..Len(written) : OutputOrdered(GroupsOf(written[w]))

\* the three exports are written for a lexicon with two letters, one of
\* which has its two files in descending order of their keys
C23_Witness ==
    /\ Len(written) = Len(ExportScripts)
    /\ DOMAIN lexicon = DirLetters
    /\ \E l \in DOMAIN lexicon :
         /\ Len(lexicon[l]) = 2
         /\ ListLess(SortingKey(lexicon[l][2], alphabet, alphabet_tokens),
                     SortingKey(lexicon[l][1], alphabet, alphabet_tokens))
    /\ \A w \in 1..Len(written) : Len(GroupsOf(written[w])) = 2

(* ------------------------------ claim C24 ------------------------------ *)

\* the written output of a script
OutputOf(name) ==
    GroupsOf(written[CHOOSE w \in 1..Len(written) : written[w].script = name])

\* the entries of es whose key is k, in the order of es
WithKey(es, k) ==
    LET HasKey(e) == SortingKey(e, alphabet, alphabet_tokens) = k
    IN SelectSeq(es, HasKey)

\* the web JSON and the CSV show, letter by letter, the entries of the archive
\* JSON in the order of the archive JSON
SameOrder(web, archive, csv) ==
    /\ Len(web) = Len(archive)
    /\ Len(csv) = Len(archive)
    /\ \A k \in 1..Len(archive) :
         LET es == archive[k].entries
         IN /\ web[k].letter = archive[k].letter
            /\ csv[k].letter = archive[k].letter
            /\ web[k].entries = [m \in 1..Len(es) |-> ConvertEntry(es[m])]
            /\ csv[k].entries = [m \in 1..Len(es) |-> ConvertEntryToCsv(es[m])]

\* the entries of a letter that have the same key are in the order of the
\* files of the letter's directory
FileOrderKept(archive) ==
    \A k \in 1..Len(archive) :
        LET files == lexicon[archive[k].letter]
        IN \A f \in 1..Len(files) :
             LET key == SortingKey(files[f], alphabet, alphabet_tokens)
             IN WithKey(archive[k].entries, key) = WithKey(files, key)

\* C24: for the same lexicon the web JSON, the archive JSON and the CSV list
\* the entries of each letter in the same order, whatever stress marks and
\* IPA lines the displayed headwords carry, and entries with equal keys keep
\* the order of their sorted file names
C24_SameOrderInAllExports ==
    Len(written) = Len(ExportScripts) =>
        /\ SameOrder(OutputOf("to_json_web.py"), OutputOf("to_json_archive.py"),
                     OutputOf("to_csv.py"))
        /\ FileOrderKept(OutputOf("to_json_archive.py"))

\* the three exports are written for a lexicon in which one letter has two
\* entries with the same key, the first of them shown with a stress mark and
\* an IPA line, and the other letter has its files in descending key order
C24_Witness ==
    /\ Len(written) = Len(ExportScripts)
    /\ \E l \in DOMAIN lexicon :
         /\ Len(lexicon[l]) = 2
         /\ ~NoIpa(lexicon[l][1])
         /\ NoIpa(lexicon[l][2])
         /\ lexicon[l][1].headword = lexicon[l][2].headword
         /\ StressedHeadword(lexicon[l][1]) # lexicon[l][1].headword
    /\ \E l \in DOMAIN lexicon :
         /\ Len(lexicon[l]) = 2
         /\ ListLess(SortingKey(lexicon[l][2], alphabet, alphabet_tokens),
                     SortingKey(lexicon[l][1], alphabet, alphabet_tokens))


(* ------------------------------ claim C27 ------------------------------ *)

\* the path p is an ancestor directory of the path q
IsAncestor(p, q) == Len(p) < Len(q) /\ SubSeq(q, 1, Len(p)) = p

\* the loop of line 30 is over
RenamesCollected == rpc \in {"rename", "raised", "returned"}

\* C27: in the sequence of renames rename_tree executes, every file or
\* directory comes before each of its ancestor directories, and the source
\* path of each rename exists when that rename is executed
C27_ChildrenBeforeParents ==
    /\ RenamesCollected =>
          \A a, b \in 1..Len(renames) :
              IsAncestor(renames[b].old, renames[a].old) => a < b
    /\ rpc = "rename" /\ i_rename < Len(renames) =>
          renames[i_rename + 1].old \in disk_dirs \cup disk_files
    /\ rpc # "raised"

\* rename_tree has returned after renaming a file or directory and, after
\* it, the directory it is in
C27_Witness ==
    /\ rpc = "returned"
    /\ rename_count >= 2
    /\ \E a, b \in 1..Len(renames) :
          /\ a < b
          /\ IsAncestor(renames[b].old, renames[a].old)
    /\ \E p \in disk_dirs \cup disk_files : Len(p) = 2 /\ \A k \in 1..2 : p[k] = <<"p", "I">>


(* ------------------------------ claim C28 ------------------------------ *)

\* the forms simplify_forms retains: those with a text other than the headword
RetainedForms ==
    LET Retained(form) == form.text # <<>> /\ form.text # sf_headword
    IN SelectSeq(sf_forms, Retained)

\* the last whitespace-separated word of a text that has one
LastWord(text) ==
    LET ends == {k \in 1..Len(text) : text[k] # " "}
        last == CHOOSE k \in ends : \A m \in ends : m <= k
        blanks == {k \in 1..last : text[k] = " "}
        first == IF blanks = {} THEN 1
                 ELSE (CHOOSE k \in blanks : \A m \in blanks : m <= k) + 1
    IN SubSeq(text, first, last)

\* '~ ' and the last word of the form's text, and '-' for an oblique stem
Collapsed(form) ==
    <<"~", " ">> \o LastWord(form.text) \o (IF form.gloss = "obl" THEN <<"-">> ELSE <<>>)

\* C28: for a compound verb (tags contain 'v', the headword contains a
\* space) simplify_forms returns, for every form that is not empty and not
\* the headword, '~ ' followed by the last word of the form's text (and '-'
\* for an oblique stem), and drops the other forms
C28_CompoundVerbFormsCollapsed ==
    sf_pc = "returned" /\ "v" \in sf_tags /\ (\E k \in 1..Len(sf_headword) : sf_headword[k] = " ") =>
        sf_result = [k \in 1..Len(RetainedForms) |-> Collapsed(RetainedForms[k])]


(* ------------------------------ claim C30 ------------------------------ *)

\* the value of the ipa line of the file on disk
IpaOnDisk == fx_file[Len(fx_file)].value

\* C30: transform_ipa gives for its own result that result again, so after
\* the first run of fix-ipa.py the file holds transform_ipa of the original
\* value and no later run changes the file
C30_TransformIpaIdempotent ==
    /\ TransformIpa(TransformIpa(fx_original)) = TransformIpa(fx_original)
    /\ fx_runs >= 1 => IpaOnDisk = TransformIpa(fx_original)
    /\ \A k \in 2..Len(fx_changed) : ~fx_changed[k]
    /\ fx_file[1] = [key |-> "headword", value |-> <<"t", "o">>]

\* the first run has aspirated a stop, removed a tie bar and replaced an o,
\* and the second run has changed nothing
C30_Witness ==
    /\ fx_runs = 2
    /\ fx_changed = <<TRUE, FALSE>>
    /\ Contains(fx_original, "o")
    /\ Contains(fx_original, "T")
    /\ Contains(fx_original, "L")
    /\ ~Contains(fx_original, "H")
    /\ Contains(IpaOnDisk, "H")
    /\ ~Contains(IpaOnDisk, "T")
    /\ ~Contains(IpaOnDisk, "o")

====
